---- MODULE Spec2Model ----
(***************************************************************************)
(* Onboarding over WhatsApp: the dialogue engine                           *)
(* (app/services/whatsapp_onboarding.py) and the deduplication gate of the *)
(* webhook (app/api/v1/endpoints/webhook.py).                              *)
(*                                                                         *)
(* Texts are sequences of characters.  A character is a one-letter string; *)
(* a precomposed accented letter is written base_accent ("a_acute"), so    *)
(* that case folding, trimming, accent stripping and substring search are  *)
(* computed on the text as the code computes them.                         *)
(***************************************************************************)
EXTENDS Integers, Sequences, FiniteSets, TLC

\* ------------------------------------------------------------------ bounds
\* how many keys of INTERESTS_MAP the contact types in SpecSelect
SelectTopics == 4
\* concurrent webhook requests in SpecGate
NumRequests == 2
\* minutes of wall clock SpecGate follows
MaxTime == 6
\* process_message calls one request queues in SpecGate
MaxBatch == 1
\* how many keys of INTERESTS_MAP the contact types in SpecConfig
ConfigTopics == 4
\* messages one request body carries in SpecBody
MaxBodyMessages == 2

\* ---------------------------------------------------------------- webhook
\* timedelta(minutes=5) of _cleanup_old_messages, in minutes
RETENTION_MINUTES == 5

\* ------------------------------------------------------- OnboardingState
NEW_LEAD == "new_lead"
SELECTING_INTERESTS == "selecting_interests"
SELECTING_PROFILE == "selecting_profile"
SELECTING_TONE == "selecting_tone"
DEMO_SENT == "demo_sent"
AWAITING_PAYMENT == "awaiting_payment"
ACTIVE == "active"
CONFIGURING == "configuring"
CONFIG_SCHEDULE == "config_schedule"
CONFIG_INTERESTS == "config_interests"

OnboardingState ==
  { NEW_LEAD, SELECTING_INTERESTS, SELECTING_PROFILE, SELECTING_TONE, DEMO_SENT,
    AWAITING_PAYMENT, ACTIVE, CONFIGURING, CONFIG_SCHEDULE, CONFIG_INTERESTS }

\* ----------------------------------------------------------- vocabularies
\* process_message: debug/test commands
reset_commands ==
  { <<"r","e","s","e","t">>,
    <<"r","e","i","n","i","c","i","a","r">>,
    <<"d","e","b","u","g","_","r","e","s","e","t">> }

\* process_message: start_keywords
start_keywords ==
  { <<"o","l","a_acute">>,
    <<"o","l","a">>,
    <<"o","i">>,
    <<"t","i","n","d","i","m">>,
    <<"s","t","a","r","t">>,
    <<"i","n","i_acute","c","i","o">>,
    <<"i","n","i","c","i","o">>,
    <<"c","o","m","e","c_cedil","a","r">>,
    <<"c","o","m","e","c","a","r">>,
    <<"t","e","s","t","e">>,
    <<"q","u","e","r","o"," ","t","e","s","t","a","r">>,
    <<"m","e","n","u">> }

\* process_message: config_keywords
config_keywords ==
  { <<"c","o","n","f","i","g","u","r","a","c","a","o">>,
    <<"c","o","n","f","i","g","u","r","a","c","o","e","s">>,
    <<"c","o","n","f","i","g">>,
    <<"a","j","u","s","t","e","s">>,
    <<"s","e","t","t","i","n","g","s">>,
    <<"p","r","e","f","e","r","e","n","c","i","a","s">>,
    <<"o","p","c","o","e","s">> }

\* INTERESTS_MAP: the keys, in insertion order
INTERESTS_KEYS ==
  << <<"t","e","c","h">>,
     <<"f","i","n","a","n","c","e">>,
     <<"c","r","y","p","t","o">>,
     <<"p","o","l","i","t","i","c","s">>,
     <<"s","p","o","r","t","s">>,
     <<"h","e","a","l","t","h">>,
     <<"e","n","t","e","r","t","a","i","n","m","e","n","t">>,
     <<"b","u","s","i","n","e","s","s">>,
     <<"w","o","r","l","d">>,
     <<"l","i","f","e","s","t","y","l","e">> >>

\* INTERESTS_MAP[key]["id"]
INTERESTS_MAP ==
  [k \in {INTERESTS_KEYS[i] : i \in DOMAIN INTERESTS_KEYS} |->
     CASE k = <<"t","e","c","h">> -> "TECH"
       [] k = <<"f","i","n","a","n","c","e">> -> "FINANCE"
       [] k = <<"c","r","y","p","t","o">> -> "CRYPTO"
       [] k = <<"p","o","l","i","t","i","c","s">> -> "POLITICS"
       [] k = <<"s","p","o","r","t","s">> -> "SPORTS"
       [] k = <<"h","e","a","l","t","h">> -> "HEALTH"
       [] k = <<"e","n","t","e","r","t","a","i","n","m","e","n","t">> -> "ENTERTAINMENT"
       [] k = <<"b","u","s","i","n","e","s","s">> -> "BUSINESS"
       [] k = <<"w","o","r","l","d">> -> "WORLD"
       [] k = <<"l","i","f","e","s","t","y","l","e">> -> "LIFESTYLE"]

\* AVAILABLE_TIMES
AVAILABLE_TIMES ==
  << <<"0","6",":","0","0">>,
     <<"0","7",":","0","0">>,
     <<"0","8",":","0","0">>,
     <<"0","9",":","0","0">>,
     <<"1","0",":","0","0">>,
     <<"1","1",":","0","0">>,
     <<"1","2",":","0","0">>,
     <<"1","3",":","0","0">>,
     <<"1","4",":","0","0">>,
     <<"1","5",":","0","0">>,
     <<"1","6",":","0","0">>,
     <<"1","7",":","0","0">>,
     <<"1","8",":","0","0">>,
     <<"1","9",":","0","0">>,
     <<"2","0",":","0","0">>,
     <<"2","1",":","0","0">>,
     <<"2","2",":","0","0">> >>

\* _handle_interest_selection: continuation keywords
continue_keywords ==
  { <<"p","r","o","n","t","o">>,
    <<"o","k">>,
    <<"c","o","n","t","i","n","u","a","r">>,
    <<"p","r","o_acute","x","i","m","o">>,
    <<"p","r","o","x","i","m","o">>,
    <<"g","e","r","a","r">>,
    <<"r","e","s","u","m","o">> }

more_keyword == <<"m","a","i","s">>

\* _handle_profile_selection
profile_curioso_words ==
  { <<"c","u","r","i","o","s","o">>,
    <<"c","u","r","i","o","s","i","d","a","d","e">>,
    <<"i","n","t","e","r","e","s","s","e">> }

\* _handle_profile_selection
profile_profissional_words ==
  { <<"p","r","o","f","i","s","s","i","o","n","a","l">>,
    <<"t","r","a","b","a","l","h","o">>,
    <<"a","r","e","a">>,
    <<"a_acute","r","e","a">> }

\* _handle_profile_selection
profile_investidor_words ==
  { <<"i","n","v","e","s","t","i","d","o","r">>,
    <<"i","n","v","i","s","t","o">>,
    <<"i","n","v","e","s","t","i","m","e","n","t","o">> }

\* _handle_tone_selection
tone_formal_words ==
  { <<"f","o","r","m","a","l">>,
    <<"s","e_acute","r","i","o">>,
    <<"s","e","r","i","o">>,
    <<"p","r","o","f","i","s","s","i","o","n","a","l">> }

\* _handle_tone_selection
tone_casual_words ==
  { <<"c","a","s","u","a","l">>,
    <<"d","e","s","c","o","n","t","r","a","i_acute","d","o">>,
    <<"d","e","s","c","o","n","t","r","a","i","d","o">>,
    <<"l","e","v","e">> }

\* _handle_post_demo
deep_dive_words ==
  { <<"d","e","e","p","_","d","i","v","e">>,
    <<"e","x","p","l","i","q","u","e">>,
    <<"m","a","i","s"," ","d","e","t","a","l","h","e","s">>,
    <<"a","p","r","o","f","u","n","d","a","r">> }

\* _handle_post_demo
liked_words ==
  { <<"a","d","o","r","e","i">>,
    <<"g","o","s","t","e","i">>,
    <<"l","e","g","a","l">>,
    <<"t","o","p">>,
    <<"s","h","o","w">>,
    <<"m","a","s","s","a">>,
    <<"d","e","m","a","i","s">> }

\* _handle_post_demo
plan_generalista_words ==
  { <<"g","e","n","e","r","a","l","i","s","t","a">>,
    <<"p","l","a","n","o"," ","1">>,
    <<"9",",","9","0">>,
    <<"b","a_acute","s","i","c","o">>,
    <<"b","a","s","i","c","o">> }

\* _handle_post_demo
plan_estrategista_words ==
  { <<"e","s","t","r","a","t","e","g","i","s","t","a">>,
    <<"p","l","a","n","o"," ","2">>,
    <<"2","9",",","9","0">>,
    <<"p","r","e","m","i","u","m">>,
    <<"c","o","m","p","l","e","t","o">> }

\* _handle_post_demo
decline_words ==
  { <<"n","a_tilde","o">>,
    <<"n","a","o">>,
    <<"d","e","p","o","i","s">>,
    <<"c","a","n","c","e","l","a","r">> }

\* _handle_awaiting_payment
paid_words ==
  { <<"p","a","g","u","e","i">>,
    <<"p","a","g","o">>,
    <<"p","r","o","n","t","o">>,
    <<"f","e","i","t","o">>,
    <<"j","a_acute"," ","p","a","g","u","e","i">> }

\* _handle_awaiting_payment
change_plan_words ==
  { <<"t","r","o","c","a","r">>,
    <<"m","u","d","a","r"," ","p","l","a","n","o">>,
    <<"o","u","t","r","o"," ","p","l","a","n","o">> }

\* _handle_config_menu
menu_schedule_words ==
  { <<"h","o","r","a","r","i","o">>,
    <<"h","o","r","a_acute","r","i","o">>,
    <<"h","o","r","a","r","i","o","s">>,
    <<"h","o","r","a_acute","r","i","o","s">>,
    <<"s","c","h","e","d","u","l","e">> }

\* _handle_config_menu
menu_interests_words ==
  { <<"t","o","p","i","c","o","s">>,
    <<"t","o_acute","p","i","c","o","s">>,
    <<"t","e","m","a","s">>,
    <<"i","n","t","e","r","e","s","s","e","s">>,
    <<"i","n","t","e","r","e","s","t","s">> }

\* _handle_config_menu
menu_exit_words ==
  { <<"v","o","l","t","a","r">>,
    <<"s","a","i","r">>,
    <<"c","a","n","c","e","l","a","r">>,
    <<"p","r","o","n","t","o">> }

\* _handle_config_schedule, _handle_config_interests
back_words ==
  { <<"v","o","l","t","a","r">>,
    <<"c","a","n","c","e","l","a","r">> }

\* _handle_config_interests
clear_words ==
  { <<"l","i","m","p","a","r">>,
    <<"r","e","s","e","t","a","r">>,
    <<"z","e","r","a","r">> }

\* _handle_config_interests
save_words ==
  { <<"s","a","l","v","a","r">>,
    <<"p","r","o","n","t","o">>,
    <<"o","k">>,
    <<"c","o","n","f","i","r","m","a","r">> }

DEFAULT_TIME_1 == <<"0","7",":","0","0">>
DEFAULT_TIME_2 == <<"1","9",":","0","0">>

\* ------------------------------------------------------------------- text
\* str.lower() on one character
LowerChar(c) ==
  CASE c = "A" -> "a" [] c = "B" -> "b" [] c = "C" -> "c" [] c = "D" -> "d"
    [] c = "E" -> "e" [] c = "F" -> "f" [] c = "G" -> "g" [] c = "H" -> "h"
    [] c = "I" -> "i" [] c = "J" -> "j" [] c = "K" -> "k" [] c = "L" -> "l"
    [] c = "M" -> "m" [] c = "N" -> "n" [] c = "O" -> "o" [] c = "P" -> "p"
    [] c = "Q" -> "q" [] c = "R" -> "r" [] c = "S" -> "s" [] c = "T" -> "t"
    [] c = "U" -> "u" [] c = "V" -> "v" [] c = "W" -> "w" [] c = "X" -> "x"
    [] c = "Y" -> "y" [] c = "Z" -> "z"
    [] c = "A_acute" -> "a_acute" [] c = "A_tilde" -> "a_tilde"
    [] c = "E_acute" -> "e_acute" [] c = "I_acute" -> "i_acute"
    [] c = "O_acute" -> "o_acute" [] c = "O_tilde" -> "o_tilde"
    [] c = "C_cedil" -> "c_cedil"
    [] OTHER -> c

\* unicodedata.normalize('NFD', c) with the nonspacing marks dropped
BaseChar(c) ==
  CASE c = "a_acute" -> "a" [] c = "a_tilde" -> "a" [] c = "e_acute" -> "e"
    [] c = "i_acute" -> "i" [] c = "o_acute" -> "o" [] c = "o_tilde" -> "o"
    [] c = "c_cedil" -> "c"
    [] c = "A_acute" -> "A" [] c = "A_tilde" -> "A" [] c = "E_acute" -> "E"
    [] c = "I_acute" -> "I" [] c = "O_acute" -> "O" [] c = "O_tilde" -> "O"
    [] c = "C_cedil" -> "C"
    [] OTHER -> c

Whitespace == { " " }

Lower(s) == [i \in 1..Len(s) |-> LowerChar(s[i])]

WithoutAccents(s) == [i \in 1..Len(s) |-> BaseChar(s[i])]

RECURSIVE LStrip(_)
LStrip(s) == IF s # <<>> /\ Head(s) \in Whitespace THEN LStrip(Tail(s)) ELSE s

RECURSIVE RStrip(_)
RStrip(s) ==
  IF s # <<>> /\ s[Len(s)] \in Whitespace THEN RStrip(SubSeq(s, 1, Len(s) - 1)) ELSE s

Strip(s) == RStrip(LStrip(s))

\* sub in s, for Python strings
Contains(sub, s) ==
  \E i \in 0..(Len(s) - Len(sub)) : SubSeq(s, i + 1, i + Len(sub)) = sub

\* x in list
InSeq(x, list) == \E i \in 1..Len(list) : list[i] = x

\* s.replace(":", "")
RECURSIVE RemoveColons(_)
RemoveColons(s) ==
  IF s = <<>> THEN <<>>
  ELSE IF Head(s) = ":" THEN RemoveColons(Tail(s))
       ELSE <<Head(s)>> \o RemoveColons(Tail(s))

normalize_text(text) == Strip(Lower(WithoutAccents(text)))

\* message.lower().strip()
lower_strip(message) == Strip(Lower(message))

\* ------------------------------------------------------------ dictionaries
\* d.get(k, default)
Get(d, k, default) == IF k \in DOMAIN d THEN d[k] ELSE default

\* d[k] = v
Put(d, k, v) == [x \in (DOMAIN d) \cup {k} |-> IF x = k THEN v ELSE d[x]]

\* ----------------------------------------------------------------- inputs
\* the texts a contact sends in Spec: the words that move a contact along
\* every edge of the state graph (one topic and one time are enough for that),
\* with case and accent variants, a word that merely contains a start keyword
\* ("depois"), a morning time typed with and without its colon, an evening
\* time and a word no state knows
Messages ==
  { <<"r","e","s","e","t">>,
    <<"o","i">>,
    <<"O","l","a_acute">>,
    <<"c","o","n","f","i","g">>,
    <<"C","o","n","f","i","g","u","r","a","c_cedil","o_tilde","e","s">>,
    <<"t","e","c","h">>,
    <<"p","r","o","n","t","o">>,
    <<"c","u","r","i","o","s","o">>,
    <<"c","a","s","u","a","l">>,
    <<"g","e","n","e","r","a","l","i","s","t","a">>,
    <<"e","s","t","r","a","t","e","g","i","s","t","a">>,
    <<"d","e","p","o","i","s">>,
    <<"p","a","g","u","e","i">>,
    <<"t","r","o","c","a","r">>,
    <<"h","o","r","a","r","i","o">>,
    <<"t","o_acute","p","i","c","o","s">>,
    <<"v","o","l","t","a","r">>,
    <<"0","6",":","0","0">>,
    <<"0","6","0","0">>,
    <<"1","9",":","0","0">>,
    <<"l","i","m","p","a","r">>,
    <<"x","y","z">> }

\* the texts a contact sends in SpecSelect: the vocabulary of
\* SELECTING_INTERESTS, with the commands that lead there and away
SelectTopicKeys == { INTERESTS_KEYS[i] : i \in 1..SelectTopics }
SelectMessages ==
  SelectTopicKeys \cup continue_keywords \cup
  { <<"r","e","s","e","t">>,
    <<"o","i">>,
    <<"O","L","A_acute">>,
    <<"c","o","n","f","i","g">>,
    <<"m","a","i","s">>,
    <<"T","E","C","H">>,
    <<" ","f","i","n","a","n","c","e"," ">>,
    <<"c","u","r","i","o","s","o">>,
    <<"x","y","z">> }

\* the texts a contact sends in SpecConfig: the words that open the menu and
\* the topic editor, the first ConfigTopics topics, one word for each of save,
\* clear and back, and a word no state knows
ConfigTopicKeys == { INTERESTS_KEYS[i] : i \in 1..ConfigTopics }
ConfigMessages ==
  ConfigTopicKeys \cup
  { <<"c","o","n","f","i","g">>,
    <<"t","o_acute","p","i","c","o","s">>,
    <<"s","a","l","v","a","r">>,
    <<"l","i","m","p","a","r">>,
    <<"v","o","l","t","a","r">>,
    <<"x","y","z">> }

\* the texts a contact sends in SpecSend: the words that take a contact from
\* the welcome to the subscription and into the schedule editor, the reset
\* command and a word no state knows
SendMessages ==
  { <<"r","e","s","e","t">>,
    <<"o","i">>,
    <<"c","o","n","f","i","g">>,
    <<"t","e","c","h">>,
    <<"p","r","o","n","t","o">>,
    <<"c","u","r","i","o","s","o">>,
    <<"c","a","s","u","a","l">>,
    <<"e","s","t","r","a","t","e","g","i","s","t","a">>,
    <<"p","a","g","u","e","i">>,
    <<"h","o","r","a","r","i","o">>,
    <<"0","6",":","0","0">>,
    <<"x","y","z">> }

\* the texts a subscriber sends in SpecSchedule: the way into the schedule
\* editor and back, allowed times typed as HH:MM and as HHMM, the digits of an
\* allowed time with the colon somewhere else, and a word no state knows
ScheduleMessages ==
  { <<"c","o","n","f","i","g">>,
    <<"h","o","r","a","r","i","o">>,
    <<"0","6",":","0","0">>,
    <<"0","6","0","0">>,
    <<"0",":","6","0","0">>,
    <<"2","0",":","0","0">>,
    <<"v","o","l","t","a","r">>,
    <<"x","y","z">> }

\* the words of every vocabulary of the engine
Vocabulary ==
  reset_commands \cup start_keywords \cup config_keywords
    \cup { INTERESTS_KEYS[i] : i \in DOMAIN INTERESTS_KEYS }
    \cup { AVAILABLE_TIMES[i] : i \in DOMAIN AVAILABLE_TIMES }
    \cup continue_keywords \cup {more_keyword}
    \cup profile_curioso_words \cup profile_profissional_words
    \cup profile_investidor_words \cup tone_formal_words \cup tone_casual_words
    \cup deep_dive_words \cup liked_words \cup plan_generalista_words
    \cup plan_estrategista_words \cup decline_words \cup paid_words
    \cup change_plan_words \cup menu_schedule_words \cup menu_interests_words
    \cup menu_exit_words \cup back_words \cup clear_words \cup save_words

\* every text the engine is applied to
TypedTexts ==
  Messages \cup SelectMessages \cup ConfigMessages \cup SendMessages \cup ScheduleMessages
    \cup Vocabulary

\* those texts and the normalized spelling of each
Texts == TypedTexts \cup { normalize_text(text) : text \in TypedTexts }

\* message_lower, message_normalized and the two keyword scans of
\* process_message, computed once per text
MessageLower == [message \in Texts |-> lower_strip(message)]

MessageNormalized == [message \in Texts |-> normalize_text(message)]

IsConfigCommand ==
  [message \in Texts |->
     \E kw \in config_keywords : Contains(kw, MessageNormalized[message])]

IsStartMessage ==
  [message \in Texts |->
     \E keyword \in start_keywords : Contains(keyword, MessageLower[message])]

Plans == { "generalista", "estrategista" }

\* outcome of the articles query of _send_demo_digest and _send_deep_dive_response
FetchOutcomes == { "articles", "empty", "raises" }
\* outcome of the Stripe checkout: no API key, no price id, Session.create raises, ok
StripeOutcomes == { "no_key", "no_price", "error", "ok" }

\* ------------------------------------------------------------------ state
\* the events for one contact that may be in flight at a time
Events == { "first", "second" }

VARIABLES
  lead,                \* the row of table subscribers for the contact's phone number
  out,                 \* what the last event sent or called, in order
  processed_messages,  \* webhook._processed_messages: message id -> minute first seen
  processing_lock,     \* webhook._processing_lock: the request holding it, or Free
  now,                 \* datetime.utcnow(), in minutes
  pc,                  \* where each webhook request stands
  cur,                 \* the message each request is looking at
  tasks,               \* the texts each request has queued for process_message
  last_admitted,       \* message id -> minute the gate last admitted it
  transport,           \* what the WhatsApp API did with the sends of the last event
  body,                \* the body of the webhook request in flight
  response,            \* what receive_webhook answered to it
  pending,             \* the updates each event in flight has yet to issue
  duplicates,          \* the rows of the phone number beyond the one the engine reads
  skipped              \* the queued texts of the last request that no task was run for

\* the row inserted by _get_or_create_lead
new_lead ==
  [ exists |-> TRUE,
    is_active |-> FALSE,
    interests |-> <<>>,
    onboarding_state |-> NEW_LEAD,
    onboarding_data |-> <<>>,
    plan |-> "generalista",
    preferred_times |-> <<DEFAULT_TIME_1, DEFAULT_TIME_2>> ]

\* no row yet for the phone number
NoLead == [new_lead EXCEPT !.exists = FALSE]

\* an update that keeps the topics already in the stored working selection
ApplyUpdate_merging(row, update_data) ==
  IF row.exists
  THEN [f \in DOMAIN row |->
          IF f \notin DOMAIN update_data THEN row[f]
          ELSE IF f = "onboarding_data"
                  /\ "selected_interests" \in DOMAIN row[f]
                  /\ "selected_interests" \in DOMAIN update_data[f]
               THEN [update_data[f] EXCEPT !["selected_interests"] =
                       row[f]["selected_interests"] \o
                       SelectSeq(@, LAMBDA t : \A i \in DOMAIN row[f]["selected_interests"] :
                                                 row[f]["selected_interests"][i] # t)]
               ELSE update_data[f]]
  ELSE row

\* supabase .update(update_data).eq("phone_number", ...): no row, no effect
ApplyUpdate(row, update_data) ==
  IF row.exists
  THEN [f \in DOMAIN row |-> IF f \in DOMAIN update_data THEN update_data[f] ELSE row[f]]
  ELSE row

RECURSIVE ApplyUpdates(_, _)
ApplyUpdates(row, updates) ==
  IF updates = <<>> THEN row
  ELSE ApplyUpdates(ApplyUpdate(row, Head(updates)), Tail(updates))

\* update_data of _update_lead_state
update_lead_state(state, extra_data) == Put(extra_data, "onboarding_state", state)

\* a handler's result: the updates it issues and what it sends
Result(updates, sent) == [updates |-> updates, out |-> sent]

\* --------------------------------------------------------------- handlers
\* _handle_new_lead leaving onboarding_data as it finds it
handle_new_lead_keeping_data(l) ==
  { Result(<<update_lead_state(SELECTING_INTERESTS, <<>>)>>,
           <<"text:welcome", "list:interests">>) }

handle_new_lead(l) ==
  { Result(<<update_lead_state(SELECTING_INTERESTS,
                [onboarding_data |-> [selected_interests |-> <<>>]])>>,
           <<"text:welcome", "list:interests">>) }

advance_to_profile_selection(interests) ==
  { Result(<<update_lead_state(SELECTING_PROFILE,
                [interests |-> interests,
                 onboarding_data |-> [selected_interests |-> interests]])>>,
           <<"text:profile_question", "buttons:profile">>) }

\* interest["id"] in selected, read as never
never_selected(interest, selected) == FALSE

\* interest["id"] in selected
already_selected(interest, selected) == InSeq(interest, selected)

\* len(selected) < 3, with the limit never applied
selection_open_always(selected) == TRUE

\* len(selected) < 3, read as len(selected) <= 3
selection_open_at_three(selected) == Len(selected) <= 3

\* len(selected) < 3
selection_open(selected) == Len(selected) < 3

\* len(selected) >= 1, read as len(selected) >= 0
can_continue_empty(selected) == Len(selected) >= 0

\* len(selected) >= 1
can_continue(selected) == Len(selected) >= 1

\* the extra_data of a selection, with interests written along
selection_update_committing(onboarding_data, selected) ==
  [interests |-> selected,
   onboarding_data |-> Put(onboarding_data, "selected_interests", selected)]

\* the extra_data written when a topic joins the selection
selection_update(onboarding_data, selected) ==
  [onboarding_data |-> Put(onboarding_data, "selected_interests", selected)]

handle_interest_selection(l, message) ==
  LET onboarding_data == l.onboarding_data
      selected == Get(onboarding_data, "selected_interests", <<>>)
      message_lower == MessageLower[message]
  IN  IF message_lower \in DOMAIN INTERESTS_MAP
      THEN LET interest == INTERESTS_MAP[message_lower]
               selected2 == Append(selected, interest)
           IN  IF ~already_selected(interest, selected)
               THEN IF selection_open(selected2)
                    THEN { Result(<<update_lead_state(SELECTING_INTERESTS,
                                      selection_update(onboarding_data, selected2))>>,
                                  <<"text:interest_noted", "buttons:continue_or_more">>) }
                    ELSE advance_to_profile_selection(selected2)
               ELSE { Result(<<>>, <<"text:already_chosen">>) }
      ELSE IF message_lower \in continue_keywords
      THEN IF can_continue(selected)
           THEN advance_to_profile_selection(selected)
           ELSE { Result(<<>>, <<"text:select_at_least_one", "list:interests">>) }
      ELSE IF message_lower = more_keyword
      THEN { Result(<<>>, <<"list:interests">>) }
      ELSE { Result(<<>>, <<"text:not_understood", "list:interests">>) }

\* the profile written into a fresh dict instead of the one loaded with the row
profile_update_fresh(l, profile) == [onboarding_data |-> Put(<<>>, "profile", profile)]

\* onboarding_data = lead.get("onboarding_data", {}); onboarding_data["profile"] = profile
profile_update(l, profile) == [onboarding_data |-> Put(l.onboarding_data, "profile", profile)]

handle_profile_selection(l, message) ==
  LET message_lower == MessageLower[message]
      profile == IF message_lower \in profile_curioso_words THEN "curioso"
                 ELSE IF message_lower \in profile_profissional_words THEN "profissional"
                 ELSE IF message_lower \in profile_investidor_words THEN "investidor"
                 ELSE "None"
  IN  IF profile # "None"
      THEN { Result(<<update_lead_state(SELECTING_TONE, profile_update(l, profile))>>,
                    <<"text:profile_ok", "buttons:tone">>) }
      ELSE { Result(<<>>, <<"text:not_understood", "buttons:profile">>) }

send_subscription_offer == <<"text:liked_it", "text:offer", "text:join_club", "buttons:plan">>

\* what _send_demo_digest sends, or the error it raises, per outcome of the query
send_demo_digest(fetch) ==
  <<"text:reading", "text:filtering", "text:summarizing">> \o
  ( CASE fetch = "raises" -> <<"raise">>
      [] fetch = "articles" -> <<"text:demo_digest", "buttons:deep_dive">> \o send_subscription_offer
      [] fetch = "empty" -> <<"text:no_news_yet">> \o send_subscription_offer )

\* the tone written into a fresh dict instead of the one loaded with the row
tone_update_fresh(l, tone) == [onboarding_data |-> Put(<<>>, "tone", tone)]

\* onboarding_data = lead.get("onboarding_data", {}); onboarding_data["tone"] = tone
tone_update(l, tone) == [onboarding_data |-> Put(l.onboarding_data, "tone", tone)]

handle_tone_selection(l, message) ==
  LET message_lower == MessageLower[message]
      tone == IF message_lower \in tone_formal_words THEN "formal"
              ELSE IF message_lower \in tone_casual_words THEN "casual"
              ELSE "None"
  IN  IF tone # "None"
      THEN { IF fetch = "raises"
             THEN Result(<<>>, <<"text:tone_ok">> \o send_demo_digest(fetch))
             ELSE Result(<<update_lead_state(DEMO_SENT, tone_update(l, tone))>>,
                         <<"text:tone_ok">> \o send_demo_digest(fetch))
             : fetch \in FetchOutcomes }
      ELSE { Result(<<>>, <<"text:not_understood", "buttons:tone">>) }

send_deep_dive_response(l) ==
  { Result(<<>>,
      CASE fetch = "raises" -> <<"raise">>
        [] fetch = "articles" -> <<"text:deep_dive", "text:liked_analysis", "buttons:plan">>
        [] fetch = "empty" -> <<"text:no_details", "text:liked_analysis", "buttons:plan">>)
    : fetch \in FetchOutcomes }

\* _send_payment_link, writing the state whether or not the link was created
send_payment_link_always_advancing(plan) ==
  { Result(<<update_lead_state(AWAITING_PAYMENT, [plan |-> plan])>>,
           <<CASE stripe = "no_key" -> "text:payment_problem"
               [] stripe = "no_price" -> "text:contact_us"
               [] stripe = "error" -> "text:checkout_failed"
               [] stripe = "ok" -> "text:payment_link">>)
    : stripe \in StripeOutcomes }

send_payment_link(plan) ==
  { CASE stripe = "no_key" -> Result(<<>>, <<"text:payment_problem">>)
      [] stripe = "no_price" -> Result(<<>>, <<"text:contact_us">>)
      [] stripe = "error" -> Result(<<>>, <<"text:checkout_failed">>)
      [] stripe = "ok" -> Result(<<update_lead_state(AWAITING_PAYMENT, [plan |-> plan])>>,
                                 <<"text:payment_link">>)
    : stripe \in StripeOutcomes }

handle_post_demo(l, message) ==
  LET message_lower == MessageLower[message]
  IN  IF message_lower \in deep_dive_words THEN send_deep_dive_response(l)
      ELSE IF message_lower \in liked_words
      THEN { Result(<<>>, <<"text:glad_you_liked", "buttons:plan">>) }
      ELSE IF message_lower \in plan_generalista_words THEN send_payment_link("generalista")
      ELSE IF message_lower \in plan_estrategista_words THEN send_payment_link("estrategista")
      ELSE IF message_lower \in decline_words THEN { Result(<<>>, <<"text:soft_exit">>) }
      ELSE { Result(<<>>, <<"text:which_plan", "buttons:plan">>) }

\* lead.get("is_active"), read as always true
payment_assumed(l) == TRUE

\* lead.get("is_active"), read as never true
payment_unseen(l) == FALSE

\* lead.get("is_active") of _handle_awaiting_payment
payment_seen(l) == l.is_active

handle_awaiting_payment(l, message) ==
  LET message_lower == MessageLower[message]
  IN  IF message_lower \in paid_words
      THEN IF payment_seen(l)
           THEN { Result(<<update_lead_state(ACTIVE, <<>>)>>, <<"text:payment_confirmed">>) }
           ELSE { Result(<<>>, <<"text:still_waiting">>) }
      ELSE IF message_lower \in change_plan_words
      THEN { Result(<<>>, <<"buttons:plan">>) }
      ELSE { Result(<<>>, <<"text:waiting_for_payment">>) }

\* ---------------------------------------------------------- configuration
handle_open_config(l) ==
  { Result(<<update_lead_state(CONFIGURING, <<>>)>>,
           <<"text:config_summary", "buttons:config_menu">>) }

start_schedule_config(l) ==
  { Result(<<update_lead_state(CONFIG_SCHEDULE,
                [onboarding_data |-> Put(l.onboarding_data, "config_step", "time_1")])>>,
           <<"text:current_schedule", "buttons:time_morning">>) }

start_interests_config(l) ==
  { Result(<<update_lead_state(CONFIG_INTERESTS,
                [onboarding_data |-> Put(l.onboarding_data, "editing_interests", l.interests)])>>,
           <<"text:current_interests", "buttons:interests_config">>) }

handle_config_menu(l, message) ==
  LET message_lower == MessageLower[message]
  IN  IF message_lower \in menu_schedule_words THEN start_schedule_config(l)
      ELSE IF message_lower \in menu_interests_words THEN start_interests_config(l)
      ELSE IF message_lower \in menu_exit_words
      THEN { Result(<<update_lead_state(ACTIVE, <<>>)>>, <<"text:config_saved">>) }
      ELSE { Result(<<>>, <<"text:not_understood", "buttons:config_menu">>) }

\* update_data of _save_schedule
save_schedule(times) == [preferred_times |-> times]

\* update_data of _save_interests
save_interests(interests) == [interests |-> interests]

\* every plan taken as delivering once a day
needs_second_slot_never(plan) == FALSE

\* plan == "estrategista"
needs_second_slot(plan) == plan = "estrategista"

handle_config_schedule(l, message) ==
  LET message_lower == MessageLower[message]
      onboarding_data == l.onboarding_data
      config_step == Get(onboarding_data, "config_step", "time_1")
      plan == l.plan
      time_value == IF InSeq(":", message_lower) THEN message_lower
                    ELSE SubSeq(message_lower, 1, 2) \o <<":">>
                           \o SubSeq(message_lower, 3, Len(message_lower))
  IN  IF InSeq(message_lower, AVAILABLE_TIMES)
         \/ \E i \in DOMAIN AVAILABLE_TIMES :
               RemoveColons(message_lower) = RemoveColons(AVAILABLE_TIMES[i])
      THEN IF config_step = "time_1"
           THEN IF needs_second_slot(plan)
                THEN { Result(<<update_lead_state(CONFIG_SCHEDULE,
                                  [onboarding_data |->
                                     Put(Put(onboarding_data, "new_time_1", time_value),
                                         "config_step", "time_2")])>>,
                              <<"text:first_time_ok", "buttons:time_evening">>) }
                ELSE { Result(<<save_schedule(<<time_value, DEFAULT_TIME_2>>),
                                update_lead_state(CONFIGURING, <<>>)>>,
                              <<"text:schedule_saved", "buttons:config_menu">>) }
           ELSE IF config_step = "time_2"
           THEN { Result(<<save_schedule(<<Get(onboarding_data, "new_time_1", DEFAULT_TIME_1),
                                           time_value>>),
                           update_lead_state(CONFIGURING, <<>>)>>,
                         <<"text:schedule_saved", "buttons:config_menu">>) }
           ELSE { Result(<<>>, <<>>) }
      ELSE IF message_lower \in back_words
      THEN { Result(<<update_lead_state(CONFIGURING, <<>>)>>,
                    <<"text:back_to_menu", "buttons:config_menu">>) }
      ELSE { Result(<<>>, <<"text:time_not_recognized",
                            IF config_step = "time_1" THEN "buttons:time_morning"
                            ELSE "buttons:time_evening">>) }

\* list.remove(x): drops the first occurrence
RECURSIVE Remove(_, _)
Remove(list, x) ==
  IF list = <<>> THEN <<>>
  ELSE IF Head(list) = x THEN Tail(list)
       ELSE <<Head(list)>> \o Remove(Tail(list), x)

\* the working set never taken as empty
always_something_to_save(editing_interests) == FALSE

\* len(editing_interests) == 0
nothing_to_save(editing_interests) == Len(editing_interests) = 0

\* the working set taken as full one topic too late
editing_full_at_four(editing_interests) == Len(editing_interests) >= 4

\* len(editing_interests) >= 3
editing_full(editing_interests) == Len(editing_interests) >= 3

handle_config_interests(l, message) ==
  LET message_lower == MessageLower[message]
      onboarding_data == l.onboarding_data
      editing_interests == Get(onboarding_data, "editing_interests", <<>>)
  IN  IF message_lower \in DOMAIN INTERESTS_MAP
      THEN LET interest_id == INTERESTS_MAP[message_lower]
               edited == IF InSeq(interest_id, editing_interests)
                         THEN Remove(editing_interests, interest_id)
                         ELSE IF editing_full(editing_interests) THEN editing_interests
                         ELSE Append(editing_interests, interest_id)
               reply == IF InSeq(interest_id, editing_interests) THEN "text:interest_removed"
                        ELSE IF editing_full(editing_interests) THEN "text:already_three"
                        ELSE "text:interest_added"
           IN  { Result(<<update_lead_state(CONFIG_INTERESTS,
                             [onboarding_data |->
                                Put(onboarding_data, "editing_interests", edited)])>>,
                        <<reply, "buttons:interests_config">>) }
      ELSE IF message_lower \in clear_words
      THEN { Result(<<update_lead_state(CONFIG_INTERESTS,
                        [onboarding_data |-> Put(onboarding_data, "editing_interests", <<>>)])>>,
                    <<"text:interests_cleared", "buttons:interests_config">>) }
      ELSE IF message_lower \in save_words
      THEN IF nothing_to_save(editing_interests)
           THEN { Result(<<>>, <<"text:select_at_least_one", "buttons:interests_config">>) }
           ELSE { Result(<<save_interests(editing_interests),
                           update_lead_state(CONFIGURING, <<>>)>>,
                         <<"text:interests_saved", "buttons:config_menu">>) }
      ELSE IF message_lower \in back_words
      THEN { Result(<<update_lead_state(CONFIGURING, <<>>)>>,
                    <<"text:changes_discarded", "buttons:config_menu">>) }
      ELSE { Result(<<>>, <<"text:not_understood", "buttons:interests_config">>) }

\* ChatAssistantService.process_user_message(phone_number, message), then the
\* reply is sent
chat_assistant(l, message) ==
  { Result(<<>>, <<"chat_assistant", message, "text:assistant_reply">>) }

\* -------------------------------------------------------- process_message
\* is_start_message and state != ACTIVE, read without the state
restarts_in_any_state(is_start_message, state) == is_start_message

\* is_start_message and state != OnboardingState.ACTIVE
restarts_onboarding(is_start_message, state) == is_start_message /\ state # ACTIVE

\* is_config_command, read without is_active
opens_config_for_anyone(is_config_command, is_active) == is_config_command

\* is_config_command and is_active
opens_config(is_config_command, is_active) == is_config_command /\ is_active

\* the branch taken once the lead is loaded
dispatch(l, message) ==
  LET state == l.onboarding_state
      is_config_command == IsConfigCommand[message]
      is_active == l.is_active
      is_start_message == IsStartMessage[message]
  IN  IF opens_config(is_config_command, is_active) THEN handle_open_config(l)
      ELSE IF restarts_onboarding(is_start_message, state) THEN handle_new_lead(l)
      ELSE CASE state = NEW_LEAD -> handle_new_lead(l)
             [] state = SELECTING_INTERESTS -> handle_interest_selection(l, message)
             [] state = SELECTING_PROFILE -> handle_profile_selection(l, message)
             [] state = SELECTING_TONE -> handle_tone_selection(l, message)
             [] state = DEMO_SENT -> handle_post_demo(l, message)
             [] state = AWAITING_PAYMENT -> handle_awaiting_payment(l, message)
             [] state = CONFIGURING -> handle_config_menu(l, message)
             [] state = CONFIG_SCHEDULE -> handle_config_schedule(l, message)
             [] state = CONFIG_INTERESTS -> handle_config_interests(l, message)
             [] state = ACTIVE -> chat_assistant(l, message)

is_reset_command(message) == MessageLower[message] \in reset_commands

\* the update of the reset command, writing is_active true
reset_update_activating ==
  update_lead_state(NEW_LEAD,
    [is_active |-> TRUE, onboarding_data |-> <<>>, plan |-> "generalista"])

reset_update ==
  update_lead_state(NEW_LEAD,
    [is_active |-> FALSE, onboarding_data |-> <<>>, plan |-> "generalista"])

\* _get_or_create_lead returning what it found, inserting nothing
get_or_create_lead_lookup_only(row) == row

\* the row after _get_or_create_lead
get_or_create_lead(row) == IF row.exists THEN row ELSE new_lead

\* process_message loading the contact, and creating its row, before it looks
\* for the reset command
process_message_loading(row, message) ==
  LET l == get_or_create_lead(row)
  IN  IF is_reset_command(message)
      THEN { [row |-> ApplyUpdate(l, reset_update), out |-> <<"text:state_reset">>] }
      ELSE { [row |-> ApplyUpdates(l, r.updates), out |-> r.out] : r \in dispatch(l, message) }

\* the possible results of one call, from the row found in the store
process_message(row, message) ==
  IF is_reset_command(message)
  THEN { [row |-> ApplyUpdate(row, reset_update), out |-> <<"text:state_reset">>] }
  ELSE LET l == get_or_create_lead(row)
       IN  { [row |-> ApplyUpdates(l, r.updates), out |-> r.out] : r \in dispatch(l, message) }

\* ------------------------------------------------------------------ prompts
\* the reply ids of the buttons and list rows of each prompt; the two topic
\* lists leave out the topics passed as exclude, so they offer at most these
Offered ==
  [ p \in { "list:interests", "buttons:continue_or_more", "buttons:profile",
            "buttons:tone", "buttons:deep_dive", "buttons:plan", "buttons:config_menu",
            "buttons:time_morning", "buttons:time_evening", "buttons:interests_config" } |->
    CASE p = "list:interests" -> DOMAIN INTERESTS_MAP
      [] p = "buttons:continue_or_more" -> { <<"m","a","i","s">>, <<"p","r","o","n","t","o">> }
      [] p = "buttons:profile" -> { <<"c","u","r","i","o","s","o">>,
                                    <<"p","r","o","f","i","s","s","i","o","n","a","l">>,
                                    <<"i","n","v","e","s","t","i","d","o","r">> }
      [] p = "buttons:tone" -> { <<"f","o","r","m","a","l">>, <<"c","a","s","u","a","l">> }
      [] p = "buttons:deep_dive" -> { <<"d","e","e","p","_","d","i","v","e">>,
                                      <<"a","d","o","r","e","i">> }
      [] p = "buttons:plan" -> { <<"g","e","n","e","r","a","l","i","s","t","a">>,
                                 <<"e","s","t","r","a","t","e","g","i","s","t","a">> }
      [] p = "buttons:config_menu" -> { <<"h","o","r","a","r","i","o">>,
                                        <<"t","o","p","i","c","o","s">>,
                                        <<"v","o","l","t","a","r">> }
      [] p = "buttons:time_morning" -> { <<"0","6",":","0","0">>, <<"0","7",":","0","0">>,
                                         <<"0","8",":","0","0">> }
      [] p = "buttons:time_evening" -> { <<"1","8",":","0","0">>, <<"1","9",":","0","0">>,
                                         <<"2","0",":","0","0">> }
      [] p = "buttons:interests_config" -> (DOMAIN INTERESTS_MAP) \cup { <<"s","a","l","v","a","r">> } ]

\* what the else branch of each state handler answers
UnrecognizedReplies ==
  { "text:not_understood", "text:which_plan", "text:waiting_for_payment",
    "text:time_not_recognized" }

\* ------------------------------------------------------------ _send_message
\* what the WhatsApp API does with a request: it answers 200, it answers
\* another status, or the client raises (timeout, connection error)
Transports == { "ok", "rejected", "timeout" }

\* _send_message with its try/except left out
send_message_raising(t) == [returned |-> t = "ok", raised |-> t = "timeout"]

\* _send_message(payload): True on 200, False otherwise, and it never raises
send_message(t) == [returned |-> t = "ok", raised |-> FALSE]

\* the entries of what a handler sends or calls that go through _send_message
Sends(sent) ==
  IF sent # <<>> /\ sent[1] = "chat_assistant" THEN {3}
  ELSE { i \in DOMAIN sent : sent[i] \notin {"raise", "immediate_digest"} }

\* the rows a handler may leave when its sends meet transport t: its updates
\* applied in full if no send raises, cut short somewhere if one does
persisted(l, r, t) ==
  IF \E i \in Sends(r.out) : send_message(t).raised
  THEN { ApplyUpdates(l, SubSeq(r.updates, 1, k)) : k \in 0..Len(r.updates) }
  ELSE { ApplyUpdates(l, r.updates) }

\* process_message when every send of the event meets transport t; the reset
\* command writes before it sends
process_message_over(row, message, t) ==
  IF is_reset_command(message)
  THEN { [row |-> ApplyUpdate(row, reset_update), out |-> <<"text:state_reset">>] }
  ELSE LET l == get_or_create_lead(row)
       IN  UNION { { [row |-> p, out |-> r.out] : p \in persisted(l, r, t) }
                   : r \in dispatch(l, message) }

\* the update of confirm_payment without is_active
confirm_payment_update_state_only(plan) ==
  update_lead_state(ACTIVE, [plan |-> plan])

\* the update of confirm_payment
confirm_payment_update(plan) ==
  update_lead_state(ACTIVE, [is_active |-> TRUE, plan |-> plan])

\* ------------------------------------------------------------ the webhook
Requests == 1..NumRequests
\* the ids WhatsApp gives the messages it delivers
MessageIds == {"wamid.1"}
\* message.get("id") of a message that carries none
NoId == ""
Free == 0
NoMessage == [id |-> NoId, type |-> "None", interactive_type |-> "None", content |-> <<>>]

\* the types and contents a delivered message may have: a text, an empty text,
\* a button reply, a list reply, an interactive message of another kind, and an
\* unsupported type
MessageShapes ==
  { [type |-> "text", interactive_type |-> "None", content |-> <<"o","i">>],
    [type |-> "text", interactive_type |-> "None", content |-> <<>>],
    [type |-> "interactive", interactive_type |-> "button_reply", content |-> <<"o","i">>],
    [type |-> "interactive", interactive_type |-> "list_reply", content |-> <<"o","i">>],
    [type |-> "interactive", interactive_type |-> "nfm_reply", content |-> <<"o","i">>],
    [type |-> "image", interactive_type |-> "None", content |-> <<"o","i">>] }

\* the message of that shape with that id
Message(message_id, shape) ==
  [id |-> message_id, type |-> shape.type,
   interactive_type |-> shape.interactive_type, content |-> shape.content]

\* if message_id: read as always true
always_dedup(message_id) == TRUE

\* if message_id:
needs_dedup(message_id) == message_id # NoId

\* async with _processing_lock, entered whoever holds the lock
lock_ignored(lock) == TRUE

\* async with _processing_lock: may enter
lock_available(lock) == lock = Free

\* the type is one receive_webhook reads a text from
supported(message) == message.type \in {"text", "interactive"}

\* text_content of receive_webhook
text_content(message) ==
  IF message.type = "text" THEN message.content
  ELSE IF message.type = "interactive"
            /\ message.interactive_type \in {"button_reply", "list_reply"}
       THEN message.content
       ELSE <<>>

\* _processed_messages after _cleanup_old_messages at minute t
cleanup_old_messages(processed, t) ==
  LET cutoff == t - RETENTION_MINUTES
      to_remove == { mid \in DOMAIN processed : processed[mid] < cutoff }
  IN  [mid \in (DOMAIN processed) \ to_remove |-> processed[mid]]

\* --------------------------------------------------------- request bodies
\* what a request body may be: no JSON at all, a JSON number, an object
\* without "entry", an object whose "entry" is a number, and an object whose
\* entry, changes and value lead to a list of messages
BodyKinds == { "not_json", "number", "no_entry", "entry_number", "messages" }

\* the shapes of the messages of a body: those of MessageShapes, a message
\* that is a string instead of an object, and a text and an interactive
\* message whose "text" and "interactive" are strings instead of objects
BodyShapes ==
  { [type |-> shape.type, interactive_type |-> shape.interactive_type,
     content |-> shape.content, fault |-> "none"] : shape \in MessageShapes }
  \cup
  { [type |-> "None", interactive_type |-> "None", content |-> <<>>,
     fault |-> "message_not_object"],
    [type |-> "text", interactive_type |-> "None", content |-> <<>>,
     fault |-> "payload_not_object"],
    [type |-> "interactive", interactive_type |-> "None", content |-> <<>>,
     fault |-> "payload_not_object"] }

BodyMessage(message_id, shape) ==
  [id |-> message_id, type |-> shape.type, interactive_type |-> shape.interactive_type,
   content |-> shape.content, fault |-> shape.fault]

NoBody == [kind |-> "none", messages |-> <<>>]
NoResponse == [status_code |-> 0, status |-> "none"]

\* for message in value["messages"]: the dedup entries and the queued texts
\* when the loop ends, and whether it ended by an exception
RECURSIVE walk_messages(_, _, _, _)
walk_messages(messages, processed, queued, t) ==
  IF messages = <<>>
  THEN [processed |-> processed, queued |-> queued, raised |-> FALSE]
  ELSE LET message == Head(messages)
           admitted == IF needs_dedup(message.id) THEN Put(processed, message.id, t)
                       ELSE processed
       IN  IF message.fault = "message_not_object"
           THEN [processed |-> processed, queued |-> queued, raised |-> TRUE]
           ELSE IF needs_dedup(message.id) /\ message.id \in DOMAIN processed
           THEN walk_messages(Tail(messages), processed, queued, t)
           ELSE IF ~supported(message)
           THEN walk_messages(Tail(messages), admitted, queued, t)
           ELSE IF message.fault = "payload_not_object"
           THEN [processed |-> admitted, queued |-> queued, raised |-> TRUE]
           ELSE IF text_content(message) = <<>>
           THEN walk_messages(Tail(messages), admitted, queued, t)
           ELSE walk_messages(Tail(messages), admitted,
                              Append(queued, text_content(message)), t)

\* the body of receive_webhook's try block
walk_body(b, processed, t) ==
  CASE b.kind \in {"not_json", "number", "entry_number"} ->
         [processed |-> processed, queued |-> <<>>, raised |-> TRUE]
    [] b.kind = "no_entry" ->
         [processed |-> processed, queued |-> <<>>, raised |-> FALSE]
    [] b.kind = "messages" -> walk_messages(b.messages, processed, <<>>, t)

\* receive_webhook without its except clause
respond_propagating(raised) ==
  IF raised THEN [status_code |-> 500, status |-> "exception"]
  ELSE [status_code |-> 200, status |-> "ok"]

\* return {"status": "ok"}, and return {"status": "error", ...} from the
\* except clause: both are answered with HTTP 200
respond(raised) ==
  IF raised THEN [status_code |-> 200, status |-> "error"]
  ELSE [status_code |-> 200, status |-> "ok"]

\* ---------------------------------------------------------------- actions
engineVars == <<lead, out>>
gateVars ==
  <<processed_messages, processing_lock, now, pc, cur, tasks, last_admitted>>
vars == <<lead, out, processed_messages, processing_lock, now, pc, cur, tasks,
          last_admitted, transport, body, response, pending, duplicates, skipped>>

Init ==
  /\ lead = NoLead
  /\ out = <<>>
  /\ processed_messages = <<>>
  /\ processing_lock = Free
  /\ now = 0
  /\ pc = [r \in Requests |-> "idle"]
  /\ cur = [r \in Requests |-> NoMessage]
  /\ tasks = [r \in Requests |-> <<>>]
  /\ last_admitted = <<>>
  /\ transport = "ok"
  /\ body = NoBody
  /\ response = NoResponse
  /\ pending = [e \in Events |-> <<>>]
  /\ duplicates = 0
  /\ skipped = <<>>

\* process_message(phone_number, message) from load to save
Deliver(message) ==
  \E r \in process_message(lead, message) :
    /\ lead' = r.row
    /\ out' = r.out
    /\ UNCHANGED <<transport, body, response>>

\* one inbound text of Spec
ProcessMessage ==
  /\ \E message \in Messages : Deliver(message)
  /\ UNCHANGED <<gateVars, pending, duplicates, skipped>>

\* one inbound text of SpecSelect
SelectProcessMessage ==
  /\ \E message \in SelectMessages : Deliver(message)
  /\ UNCHANGED <<gateVars, pending, duplicates, skipped>>

\* one inbound text of SpecConfig
ConfigProcessMessage ==
  /\ \E message \in ConfigMessages : Deliver(message)
  /\ UNCHANGED <<gateVars, pending, duplicates, skipped>>

\* one inbound text of SpecSchedule
ScheduleProcessMessage ==
  /\ \E message \in ScheduleMessages : Deliver(message)
  /\ UNCHANGED <<gateVars, pending, duplicates, skipped>>

\* one inbound text of SpecSend, with what the WhatsApp API does with the
\* sends it causes
SendProcessMessage ==
  /\ \E message \in SendMessages, t \in Transports :
       \E r \in process_message_over(lead, message, t) :
         /\ lead' = r.row
         /\ out' = r.out
         /\ transport' = t
  /\ UNCHANGED <<gateVars, pending, duplicates, skipped, body, response>>

\* the payment-confirmation callback
ConfirmPayment ==
  /\ \E plan \in Plans :
       /\ lead' = ApplyUpdate(lead, confirm_payment_update(plan))
       /\ out' = <<"text:payment_received", "text:welcome_plan", "text:surprise",
                   "immediate_digest">>
  /\ UNCHANGED <<gateVars, pending, duplicates, skipped, transport, body, response>>

\* -------------------------------------------- events for one contact in flight
\* each webhook request runs its background task on the one event loop; a task
\* gives way to the others at every send (await client.post), so the load of
\* an event and the writes it issues after a send are separate steps
RaceMessages ==
  { <<"t","e","c","h">>,
    <<"f","i","n","a","n","c","e">>,
    <<"r","e","s","e","t">>,
    <<"o","i">>,
    <<"p","r","o","n","t","o">>,
    <<"c","o","n","f","i","g">>,
    <<"v","o","l","t","a","r">> }

\* _save_schedule and _save_interests are called before the first send of
\* their branch: the updates without onboarding_state at the head of a result
RECURSIVE SavesAtHead(_)
SavesAtHead(updates) ==
  IF updates # <<>> /\ "onboarding_state" \notin DOMAIN Head(updates)
  THEN <<Head(updates)>> \o SavesAtHead(Tail(updates))
  ELSE <<>>

\* what an event holds between a lookup that found no row and its insert
Inserting == [insert |-> TRUE]

\* an insert into a table without a key on phone_number
insert_row_without_key(exists) == "inserted"

\* table subscribers has phone_number as its unique key: the insert of a
\* second row for the number is rejected
insert_row(exists) == IF exists THEN "rejected" ELSE "inserted"

\* an event starts: process_message up to the first send of its handler, or,
\* for a number without a row, up to the insert of _get_or_create_lead (which
\* another worker process may overtake)
BeginWith(e, messages) ==
  /\ pending[e] = <<>>
  /\ \E message \in messages :
       IF is_reset_command(message)
       THEN /\ lead' = ApplyUpdate(lead, reset_update)
            /\ UNCHANGED pending
       ELSE IF ~lead.exists
       THEN /\ pending' = [pending EXCEPT ![e] = <<Inserting>>]
            /\ UNCHANGED lead
       ELSE \E r \in dispatch(lead, message) :
              LET saves == SavesAtHead(r.updates)
              IN  /\ lead' = ApplyUpdates(lead, saves)
                  /\ pending' = [pending EXCEPT
                                   ![e] = SubSeq(r.updates, Len(saves) + 1, Len(r.updates))]
  /\ UNCHANGED <<out, duplicates, skipped, gateVars, transport, body, response>>

\* the insert of _get_or_create_lead; the new row is in NEW_LEAD and not
\* active, so whatever the text it goes to _handle_new_lead; a rejected
\* insert raises and ends the event
Insert(e) ==
  /\ pending[e] = <<Inserting>>
  /\ IF insert_row(lead.exists) = "inserted"
     THEN /\ IF lead.exists
             THEN duplicates' = duplicates + 1 /\ UNCHANGED lead
             ELSE lead' = new_lead /\ UNCHANGED duplicates
          /\ \E r \in handle_new_lead(new_lead) :
               pending' = [pending EXCEPT ![e] = r.updates]
     ELSE /\ pending' = [pending EXCEPT ![e] = <<>>]
          /\ UNCHANGED <<lead, duplicates>>
  /\ UNCHANGED <<out, skipped, gateVars, transport, body, response>>

\* the event issues its next update, computed from the row it loaded
Write(e) ==
  /\ pending[e] # <<>>
  /\ pending[e] # <<Inserting>>
  /\ lead' = ApplyUpdate(lead, Head(pending[e]))
  /\ pending' = [pending EXCEPT ![e] = Tail(@)]
  /\ UNCHANGED <<out, duplicates, skipped, gateVars, transport, body, response>>

\* an event of SpecRace starts
Begin(e) == BeginWith(e, RaceMessages)

\* the texts of SpecRaceTopics: four topics, the words that commit a working
\* selection and those that open, edit and save the configuration working set
RaceTopicMessages ==
  { INTERESTS_KEYS[i] : i \in 1..4 } \cup
  { <<"p","r","o","n","t","o">>,
    <<"c","o","n","f","i","g">>,
    <<"t","o","p","i","c","o","s">>,
    <<"s","a","l","v","a","r">> }

\* an event of SpecRaceTopics starts
TopicsBegin(e) == BeginWith(e, RaceTopicMessages)

NextRace ==
  \/ \E e \in Events : Begin(e)
  \/ \E e \in Events : Insert(e)
  \/ \E e \in Events : Write(e)
  \/ ConfirmPayment

SpecRace == Init /\ [][NextRace]_vars

Next ==
  \/ ProcessMessage
  \/ ConfirmPayment

Spec == Init /\ [][Next]_vars

NextSelect ==
  \/ SelectProcessMessage
  \/ ConfirmPayment

SpecSelect == Init /\ [][NextSelect]_vars

NextSend ==
  \/ SendProcessMessage
  \/ ConfirmPayment

SpecSend == Init /\ [][NextSend]_vars

NextConfig ==
  \/ ConfigProcessMessage
  \/ ConfirmPayment

\* SpecConfig starts from a subscriber: the row of a contact who sent "oi" and
\* whose payment was then confirmed
subscriber ==
  LET welcomed == CHOOSE r \in process_message(NoLead, <<"o","i">>) : TRUE
  IN  ApplyUpdate(welcomed.row, confirm_payment_update("generalista"))

InitConfig ==
  /\ lead = subscriber
  /\ out = <<"text:payment_received", "text:welcome_plan", "text:surprise",
             "immediate_digest">>
  /\ processed_messages = <<>>
  /\ processing_lock = Free
  /\ now = 0
  /\ pc = [r \in Requests |-> "idle"]
  /\ cur = [r \in Requests |-> NoMessage]
  /\ tasks = [r \in Requests |-> <<>>]
  /\ last_admitted = <<>>
  /\ transport = "ok"
  /\ body = NoBody
  /\ response = NoResponse
  /\ pending = [e \in Events |-> <<>>]
  /\ duplicates = 0
  /\ skipped = <<>>

SpecConfig == InitConfig /\ [][NextConfig]_vars

\* SpecSchedule starts from a subscriber of either plan
InitSchedule ==
  /\ lead \in { ApplyUpdate(subscriber, confirm_payment_update(plan)) :
                  plan \in { "generalista", "estrategista" } }
  /\ out = <<>>
  /\ processed_messages = <<>>
  /\ processing_lock = Free
  /\ now = 0
  /\ pc = [r \in Requests |-> "idle"]
  /\ cur = [r \in Requests |-> NoMessage]
  /\ tasks = [r \in Requests |-> <<>>]
  /\ last_admitted = <<>>
  /\ transport = "ok"
  /\ body = NoBody
  /\ response = NoResponse
  /\ pending = [e \in Events |-> <<>>]
  /\ duplicates = 0
  /\ skipped = <<>>

NextSchedule == ScheduleProcessMessage

SpecSchedule == InitSchedule /\ [][NextSchedule]_vars

\* the row of a contact who sent "oi": in SELECTING_INTERESTS, nothing chosen
welcomed == (CHOOSE r \in process_message(NoLead, <<"o","i">>) : TRUE).row

\* SpecRaceTopics starts from a contact about to choose its topics or from a
\* subscriber
InitRaceTopics ==
  /\ lead \in { welcomed, subscriber }
  /\ out = <<>>
  /\ processed_messages = <<>>
  /\ processing_lock = Free
  /\ now = 0
  /\ pc = [r \in Requests |-> "idle"]
  /\ cur = [r \in Requests |-> NoMessage]
  /\ tasks = [r \in Requests |-> <<>>]
  /\ last_admitted = <<>>
  /\ transport = "ok"
  /\ body = NoBody
  /\ response = NoResponse
  /\ pending = [e \in Events |-> <<>>]
  /\ duplicates = 0
  /\ skipped = <<>>

\* two events of one contact in flight, over four topics
NextRaceTopics ==
  \/ \E e \in Events : TopicsBegin(e)
  \/ \E e \in Events : Write(e)

SpecRaceTopics == InitRaceTopics /\ [][NextRaceTopics]_vars

\* receive_webhook, once the background tasks of the slot's last request are
\* done: the body is read, the sweep is queued, the loop starts
Receive(r) ==
  /\ pc[r] = "idle"
  /\ tasks[r] = <<>>
  /\ pc' = [pc EXCEPT ![r] = "loop"]
  /\ UNCHANGED <<pending, duplicates, skipped, body, response, transport, lead, out, processed_messages, processing_lock, now, cur, tasks,
                 last_admitted>>

\* for message in value["messages"]: the next message, with or without an id
NextMessage(r) ==
  /\ pc[r] = "loop"
  /\ Len(tasks[r]) < MaxBatch
  /\ \E message_id \in MessageIds \cup {NoId} :
       IF needs_dedup(message_id)
       THEN /\ cur' = [cur EXCEPT ![r] = [NoMessage EXCEPT !.id = message_id]]
            /\ pc' = [pc EXCEPT ![r] = "acquire"]
       ELSE /\ \E shape \in MessageShapes :
                 cur' = [cur EXCEPT ![r] = Message(message_id, shape)]
            /\ pc' = [pc EXCEPT ![r] = "extract"]
  /\ UNCHANGED <<pending, duplicates, skipped, body, response, transport, lead, out, processed_messages, processing_lock, now, tasks, last_admitted>>

\* async with _processing_lock: if message_id in _processed_messages
Check(r) ==
  /\ pc[r] = "acquire"
  /\ lock_available(processing_lock)
  /\ processing_lock' = r
  /\ pc' = [pc EXCEPT ![r] = IF cur[r].id \in DOMAIN processed_messages
                             THEN "skip" ELSE "admit"]
  /\ UNCHANGED <<pending, duplicates, skipped, body, response, transport, lead, out, processed_messages, now, cur, tasks, last_admitted>>

\* continue: the duplicate is dropped and the lock released
Skip(r) ==
  /\ pc[r] = "skip"
  /\ processing_lock' = Free
  /\ cur' = [cur EXCEPT ![r] = NoMessage]
  /\ pc' = [pc EXCEPT ![r] = "loop"]
  /\ UNCHANGED <<pending, duplicates, skipped, body, response, transport, lead, out, processed_messages, now, tasks, last_admitted>>

\* _processed_messages[message_id] = datetime.utcnow(), and the lock released
Admit(r) ==
  /\ pc[r] = "admit"
  /\ processed_messages' = Put(processed_messages, cur[r].id, now)
  /\ processing_lock' = Free
  /\ \E shape \in MessageShapes :
       cur' = [cur EXCEPT ![r] = Message(cur[r].id, shape)]
  /\ pc' = [pc EXCEPT ![r] = "extract"]
  /\ last_admitted' = Put(last_admitted, cur[r].id, now)
  /\ UNCHANGED <<pending, duplicates, skipped, body, response, transport, lead, out, now, tasks>>

\* the text is extracted and, if there is one, process_message is queued
Extract(r) ==
  /\ pc[r] = "extract"
  /\ IF supported(cur[r]) /\ text_content(cur[r]) # <<>>
     THEN tasks' = [tasks EXCEPT ![r] = Append(@, text_content(cur[r]))]
     ELSE UNCHANGED tasks
  /\ cur' = [cur EXCEPT ![r] = NoMessage]
  /\ pc' = [pc EXCEPT ![r] = "loop"]
  /\ UNCHANGED <<pending, duplicates, skipped, body, response, transport, lead, out, processed_messages, processing_lock, now, last_admitted>>

\* return {"status": "ok"}, after which the background tasks start: the first
\* is _cleanup_old_messages, queued before the loop, and it never suspends
Cleanup(r) ==
  /\ pc[r] = "loop"
  /\ processed_messages' = cleanup_old_messages(processed_messages, now)
  /\ pc' = [pc EXCEPT ![r] = "idle"]
  /\ UNCHANGED <<pending, duplicates, skipped, body, response, transport, lead, out, processing_lock, now, cur, tasks, last_admitted>>

\* the next background task: the text is handed to
\* whatsapp_onboarding.process_message, whose steps are those of Spec
RunTask(r) ==
  /\ pc[r] = "idle"
  /\ tasks[r] # <<>>
  /\ tasks' = [tasks EXCEPT ![r] = Tail(@)]
  /\ UNCHANGED <<pending, duplicates, skipped, body, response, transport, lead, out, processed_messages, processing_lock, now, pc, cur,
                 last_admitted>>

\* a minute passes.  After the body is read the handler suspends only to wait
\* for the lock, whose holder never suspends, so no minute passes inside it
Tick ==
  /\ now < MaxTime
  /\ \A r \in Requests : pc[r] = "idle"
  /\ now' = now + 1
  /\ UNCHANGED <<pending, duplicates, skipped, body, response, transport, lead, out, processed_messages, processing_lock, pc, cur, tasks,
                 last_admitted>>

\* WhatsApp starts a request to the webhook
Arrive ==
  /\ body = NoBody
  /\ \E kind \in BodyKinds : body' = [kind |-> kind, messages |-> <<>>]
  /\ skipped' = <<>>
  /\ UNCHANGED <<engineVars, pending, duplicates, gateVars, transport, response>>

\* and puts one more message into its body
AddMessageOf(shapes) ==
  /\ body.kind = "messages"
  /\ response = NoResponse
  /\ Len(body.messages) < MaxBodyMessages
  /\ \E message_id \in MessageIds \cup {NoId}, shape \in shapes :
       body' = [body EXCEPT !.messages = Append(@, BodyMessage(message_id, shape))]
  /\ UNCHANGED <<engineVars, pending, duplicates, skipped, gateVars, transport, response>>

AddMessage == AddMessageOf(BodyShapes)

\* receive_webhook from request.json() to its return, alone on the event
\* loop, followed by the sweep if it was queued (the body was JSON)
HandleBody ==
  /\ body # NoBody
  /\ response = NoResponse
  /\ LET done == walk_body(body, processed_messages, now)
     IN  /\ response' = respond(done.raised)
         /\ processed_messages' =
              IF body.kind = "not_json" THEN done.processed
              ELSE cleanup_old_messages(done.processed, now)
         /\ tasks' = [tasks EXCEPT ![1] = done.queued]
  /\ UNCHANGED <<engineVars, pending, duplicates, skipped, processing_lock, now, pc, cur, last_admitted, transport, body>>

\* the request is over once its background tasks have run
Depart ==
  /\ response # NoResponse
  /\ tasks[1] = <<>>
  /\ body' = NoBody
  /\ response' = NoResponse
  /\ UNCHANGED <<engineVars, pending, duplicates, skipped, gateVars, transport>>

NextBody ==
  \/ Arrive
  \/ AddMessage
  \/ HandleBody
  \/ RunTask(1)
  \/ Depart

SpecBody == Init /\ [][NextBody]_vars

\* the row of a contact who then chose a topic and a profile: in SELECTING_TONE
choosing_tone ==
  LET after(row, message) == (CHOOSE r \in process_message(row, message) : TRUE).row
  IN  after(after(after(welcomed, <<"t","e","c","h">>), <<"p","r","o","n","t","o">>),
            <<"c","u","r","i","o","s","o">>)

\* the messages of SpecTasks: well-formed texts, a tone word and a greeting
TaskShapes ==
  { [type |-> "text", interactive_type |-> "None", content |-> text, fault |-> "none"] :
      text \in { <<"c","a","s","u","a","l">>, <<"o","i">> } }

AddTaskMessage == AddMessageOf(TaskShapes)

\* process_message left by an exception instead of a return
task_raised(sent) == sent # <<>> /\ sent[Len(sent)] = "raise"

\* the next background task of the request, run after the response was sent:
\* process_message from load to save.  The tasks of one request are awaited
\* one after the other without a try block, so the exception of one leaves
\* the loop and the tasks queued after it are never run
RunQueuedTask ==
  /\ response # NoResponse
  /\ tasks[1] # <<>>
  /\ \E r \in process_message(lead, Head(tasks[1])) :
       /\ lead' = r.row
       /\ out' = r.out
       /\ IF task_raised(r.out)
          THEN /\ tasks' = [tasks EXCEPT ![1] = <<>>]
               /\ skipped' = Tail(tasks[1])
          ELSE /\ tasks' = [tasks EXCEPT ![1] = Tail(@)]
               /\ UNCHANGED skipped
  /\ UNCHANGED <<pending, duplicates, processed_messages, processing_lock, now, pc, cur,
                 last_admitted, transport, body, response>>

\* SpecTasks starts from a contact about to choose its tone
InitTasks ==
  /\ lead = choosing_tone
  /\ out = <<>>
  /\ processed_messages = <<>>
  /\ processing_lock = Free
  /\ now = 0
  /\ pc = [r \in Requests |-> "idle"]
  /\ cur = [r \in Requests |-> NoMessage]
  /\ tasks = [r \in Requests |-> <<>>]
  /\ last_admitted = <<>>
  /\ transport = "ok"
  /\ body = NoBody
  /\ response = NoResponse
  /\ pending = [e \in Events |-> <<>>]
  /\ duplicates = 0
  /\ skipped = <<>>

NextTasks ==
  \/ Arrive
  \/ AddTaskMessage
  \/ HandleBody
  \/ RunQueuedTask
  \/ Depart

SpecTasks == InitTasks /\ [][NextTasks]_vars

NextGate ==
  \/ \E r \in Requests : Receive(r)
  \/ \E r \in Requests : NextMessage(r)
  \/ \E r \in Requests : Check(r)
  \/ \E r \in Requests : Skip(r)
  \/ \E r \in Requests : Admit(r)
  \/ \E r \in Requests : Extract(r)
  \/ \E r \in Requests : Cleanup(r)
  \/ \E r \in Requests : RunTask(r)
  \/ Tick

SpecGate == Init /\ [][NextGate]_vars

\* ----------------------------------------------------------------- claims
\* onboarding_data.get("selected_interests", []) of a row
Selected(row) == Get(row.onboarding_data, "selected_interests", <<>>)

\* the texts that are a start keyword, whatever their case and outer blanks
StartKeywordTexts == { m \in Texts : MessageLower[m] \in start_keywords }

\* the texts that name a topic of INTERESTS_MAP
TopicTexts == { m \in Texts : MessageLower[m] \in DOMAIN INTERESTS_MAP }

\* the texts that are a continuation keyword
ContinueTexts == { m \in Texts : MessageLower[m] \in continue_keywords }

\* the topic a text names
Topic(m) == INTERESTS_MAP[MessageLower[m]]

\* C1: in every state reached by inbound messages (start keywords, the reset
\* command and configuration commands among them) and payment confirmations,
\* one event at a time, the state is ACTIVE only if is_active is true
ActiveImpliesIsActive ==
  lead.onboarding_state = ACTIVE => lead.is_active

\* C1: a contact that is active says it paid and is moved to ACTIVE
ActiveAfterPaymentSeen ==
  /\ lead.onboarding_state = ACTIVE
  /\ lead.is_active
  /\ Len(out) = 1
  /\ out[1] = "text:payment_confirmed"

\* C5 as stated: whenever a contact whose state is not ACTIVE sends a start
\* keyword, the state saved by the event is NEW_LEAD and the working selection
\* is empty
StartKeywordSavesNewLead ==
  lead.onboarding_state # ACTIVE =>
    \A m \in StartKeywordTexts : \A r \in process_message(lead, m) :
      /\ r.row.onboarding_state = NEW_LEAD
      /\ Selected(r.row) = <<>>

\* C5 amended: whenever a contact whose state is not ACTIVE sends a start
\* keyword, whatever the prior state, the state saved by the event is
\* SELECTING_INTERESTS, the working selection is empty and nothing else is
\* left in onboarding_data
StartKeywordSavesSelectingInterests ==
  lead.onboarding_state # ACTIVE =>
    \A m \in StartKeywordTexts : \A r \in process_message(lead, m) :
      /\ r.row.onboarding_state = SELECTING_INTERESTS
      /\ Selected(r.row) = <<>>
      /\ r.row.onboarding_data = [selected_interests |-> <<>>]

\* C5: a contact that had committed interests has sent a start keyword
RestartedWithInterests ==
  /\ lead.onboarding_state = SELECTING_INTERESTS
  /\ lead.interests # <<>>
  /\ lead.onboarding_data = [selected_interests |-> <<>>]
  /\ Len(out) = 2
  /\ out[1] = "text:welcome"

DuplicateTopicWritesNothing ==
  (lead.exists /\ lead.onboarding_state = SELECTING_INTERESTS) =>
    \A m \in TopicTexts :
      InSeq(Topic(m), Selected(lead)) =>
        \A r \in process_message(lead, m) :
          /\ r.row = lead
          /\ r.out = <<"text:already_chosen">>

\* C7: with two topics selected, one of them is sent again
DuplicateTopicSent ==
  /\ lead.onboarding_state = SELECTING_INTERESTS
  /\ Len(Selected(lead)) = 2
  /\ Len(out) = 1
  /\ out[1] = "text:already_chosen"

\* the rows process_message may leave after the texts of a list, in order
RECURSIVE RowsAfter(_, _)
RowsAfter(row, messages) ==
  IF messages = <<>> THEN {row}
  ELSE UNION { RowsAfter(r.row, Tail(messages)) : r \in process_message(row, Head(messages)) }

\* C8: in SELECTING_INTERESTS the first and the second distinct topic leave the
\* state SELECTING_INTERESTS and join the working selection; the third moves
\* the contact to SELECTING_PROFILE at once and writes interests as the three
\* topics in the order chosen.  A new contact sending oi, tech, finance,
\* politics ends in SELECTING_PROFILE with interests TECH, FINANCE, POLITICS
ThirdTopicAdvances ==
  /\ (lead.exists /\ lead.onboarding_state = SELECTING_INTERESTS
        /\ Len(Selected(lead)) <= 2) =>
       \A m \in TopicTexts :
         ~InSeq(Topic(m), Selected(lead)) =>
           \A r \in process_message(lead, m) :
             IF Len(Selected(lead)) = 2
             THEN /\ r.row.onboarding_state = SELECTING_PROFILE
                  /\ r.row.interests = Append(Selected(lead), Topic(m))
                  /\ Len(r.row.interests) = 3
             ELSE /\ r.row.onboarding_state = SELECTING_INTERESTS
                  /\ Selected(r.row) = Append(Selected(lead), Topic(m))
  /\ \A row \in RowsAfter(NoLead, << <<"o","i">>, <<"t","e","c","h">>,
                                      <<"f","i","n","a","n","c","e">>,
                                      <<"p","o","l","i","t","i","c","s">> >>) :
       /\ row.onboarding_state = SELECTING_PROFILE
       /\ row.interests = <<"TECH", "FINANCE", "POLITICS">>

\* C8: the contact has chosen tech, finance and politics and been asked its
\* profile
ThreeTopicsChosen ==
  /\ lead.onboarding_state = SELECTING_PROFILE
  /\ lead.interests = <<"TECH", "FINANCE", "POLITICS">>
  /\ Len(out) = 2
  /\ out[1] = "text:profile_question"

\* C9: in SELECTING_INTERESTS a continuation keyword moves the contact to
\* SELECTING_PROFILE and writes interests as the working selection when a
\* topic is selected, and changes no field when none is
ContinueNeedsOneTopic ==
  (lead.exists /\ lead.onboarding_state = SELECTING_INTERESTS) =>
    \A m \in ContinueTexts : \A r \in process_message(lead, m) :
      IF Len(Selected(lead)) >= 1
      THEN /\ r.row.onboarding_state = SELECTING_PROFILE
           /\ r.row.interests = Selected(lead)
           /\ Selected(r.row) = Selected(lead)
      ELSE /\ r.row = lead
           /\ r.out = <<"text:select_at_least_one", "list:interests">>

\* C9: the contact continued with a single topic selected
ContinuedWithOneTopic ==
  /\ lead.onboarding_state = SELECTING_PROFILE
  /\ Len(lead.interests) = 1
  /\ Selected(lead) = lead.interests
  /\ Len(out) = 2
  /\ out[1] = "text:profile_question"

\* the states of the funnel before payment
FunnelStates ==
  { NEW_LEAD, SELECTING_INTERESTS, SELECTING_PROFILE, SELECTING_TONE, DEMO_SENT,
    AWAITING_PAYMENT }

\* C10: no text a contact sends during onboarding changes interests, except
\* the one that moves it from SELECTING_INTERESTS to SELECTING_PROFILE (a
\* continuation keyword, or the third topic), which writes the selection; so
\* while the selection is being built interests stays as it was
InterestsWrittenOnlyAtAdvance ==
  (lead.exists /\ lead.onboarding_state \in FunnelStates) =>
    \A m \in Texts : \A r \in process_message(lead, m) :
      r.row.interests # lead.interests =>
        /\ lead.onboarding_state = SELECTING_INTERESTS
        /\ r.row.onboarding_state = SELECTING_PROFILE
        /\ \/ MessageLower[m] \in continue_keywords
           \/ m \in TopicTexts /\ Len(Selected(lead)) = 2

\* C10: two topics are in the working selection and interests is still empty
SelectionBuiltInterestsEmpty ==
  /\ lead.onboarding_state = SELECTING_INTERESTS
  /\ Len(Selected(lead)) = 2
  /\ lead.interests = <<>>
  /\ Len(out) = 2
  /\ out[1] = "text:interest_noted"

\* request r is past the gate with the message it looks at
PastGate(r) == pc[r] \in {"admit", "extract"}

\* the step in which request r admits the id it looks at
AdmitStep(r) == pc[r] = "admit" /\ pc'[r] = "extract"

\* C2: whatever the interleaving of requests and sweeps, an id is not admitted
\* (so no message with it is handed to process_message) less than 5 minutes
\* after it was last admitted, and two requests are never past the gate with
\* the same id: the test and the insert happen under one hold of the lock
OneAdmissionPerWindow ==
  /\ [](\A r, q \in Requests :
          (r # q /\ PastGate(r) /\ PastGate(q) /\ needs_dedup(cur[r].id)) =>
            cur[q].id # cur[r].id)
  /\ [][\A r \in Requests :
          (AdmitStep(r) /\ cur[r].id \in DOMAIN last_admitted) =>
            now - last_admitted[cur[r].id] >= RETENTION_MINUTES]_vars

\* C2: minutes after an id was admitted two requests deliver it again at once;
\* one is turned away while the other waits for the lock
DuplicateTurnedAway ==
  \E r, q \in Requests :
    /\ r # q
    /\ pc[r] = "skip"
    /\ pc[q] = "acquire"
    /\ cur[q].id = cur[r].id
    /\ now - last_admitted[cur[r].id] \in 1..(RETENTION_MINUTES - 1)

\* C3 as stated: an id admitted at minute T is admitted again by the first
\* delivery that arrives once the 5 minutes have passed, so a delivery is
\* turned away only within 5 minutes of the admission
TurnedAwayOnlyInsideWindow ==
  \A r \in Requests :
    pc[r] = "skip" => now - last_admitted[cur[r].id] <= RETENTION_MINUTES

\* the step in which request r has read the text of a message without id
NoIdExtractStep(r) == pc[r] = "extract" /\ pc'[r] = "loop" /\ cur[r].id = NoId

\* C4: a message without id never waits at the gate nor is turned away, it
\* leaves no entry in the map, and it is handed to process_message exactly
\* when the handler reads a text from its type and the text is not empty
NoIdAlwaysAdmitted ==
  /\ [](\A r \in Requests :
          pc[r] \in {"acquire", "skip", "admit"} => cur[r].id # NoId)
  /\ [](NoId \notin DOMAIN processed_messages)
  /\ [][\A r \in Requests :
          NoIdExtractStep(r) =>
            /\ processed_messages' = processed_messages
            /\ IF supported(cur[r]) /\ text_content(cur[r]) # <<>>
               THEN tasks'[r] = Append(tasks[r], text_content(cur[r]))
               ELSE tasks'[r] = tasks[r]]_vars

\* C4: no id was ever admitted, yet every request has queued a text: each came
\* with a message that carried no id
NoIdQueuedByEveryRequest ==
  /\ last_admitted = <<>>
  /\ processed_messages = <<>>
  /\ \A r \in Requests : tasks[r] # <<>>

\* the texts the handler of a state recognizes: the words its branches test
\* message_lower against
StateVocabulary(state) ==
  CASE state = SELECTING_INTERESTS ->
         { m \in Texts : MessageLower[m] \in (DOMAIN INTERESTS_MAP)
                            \cup continue_keywords \cup {more_keyword} }
    [] state = SELECTING_PROFILE ->
         { m \in Texts : MessageLower[m] \in profile_curioso_words
                            \cup profile_profissional_words \cup profile_investidor_words }
    [] state = SELECTING_TONE ->
         { m \in Texts : MessageLower[m] \in tone_formal_words \cup tone_casual_words }
    [] state = DEMO_SENT ->
         { m \in Texts : MessageLower[m] \in deep_dive_words \cup liked_words
                            \cup plan_generalista_words \cup plan_estrategista_words
                            \cup decline_words }
    [] state = AWAITING_PAYMENT ->
         { m \in Texts : MessageLower[m] \in paid_words \cup change_plan_words }
    [] state = CONFIGURING ->
         { m \in Texts : MessageLower[m] \in menu_schedule_words
                            \cup menu_interests_words \cup menu_exit_words }
    [] state = CONFIG_SCHEDULE ->
         { m \in Texts :
             \/ MessageLower[m] \in back_words
             \/ \E i \in DOMAIN AVAILABLE_TIMES :
                  RemoveColons(MessageLower[m]) = RemoveColons(AVAILABLE_TIMES[i]) }
    [] state = CONFIG_INTERESTS ->
         { m \in Texts : MessageLower[m] \in (DOMAIN INTERESTS_MAP)
                            \cup clear_words \cup save_words \cup back_words }
    [] OTHER -> {}

\* the texts that are themselves a start, reset or configuration keyword
KeywordTexts ==
  { m \in Texts : \/ MessageLower[m] \in start_keywords \cup reset_commands
                  \/ MessageNormalized[m] \in config_keywords }

\* C11 as stated: in every state but NEW_LEAD and ACTIVE, a text that is no
\* word of the state's vocabulary and is not itself a start, reset or
\* configuration keyword leaves the state and every field of the row as they
\* were
UnrecognizedTextChangesNothing ==
  (lead.exists /\ lead.onboarding_state \notin {NEW_LEAD, ACTIVE}) =>
    \A m \in Texts \ (StateVocabulary(lead.onboarding_state) \cup KeywordTexts) :
      \A r \in process_message(lead, m) : r.row = lead

\* C11, what the engine does keep: the same, for the texts in which no start
\* keyword occurs and, when the contact is active, no configuration keyword
UnrecognizedTextWithoutKeywordInside ==
  (lead.exists /\ lead.onboarding_state \notin {NEW_LEAD, ACTIVE}) =>
    \A m \in Texts \ (StateVocabulary(lead.onboarding_state) \cup KeywordTexts) :
      (~IsStartMessage[m] /\ ~(IsConfigCommand[m] /\ lead.is_active)) =>
        \A r \in process_message(lead, m) : r.row = lead

\* the texts that are a decline keyword of _handle_post_demo
DeclineTexts == { m \in Texts : MessageLower[m] \in decline_words }

\* C12 as stated: in DEMO_SENT each decline keyword is answered by the soft
\* exit and leaves the state DEMO_SENT and every field of the row as they were
DeclineKeepsDemoSent ==
  (lead.exists /\ lead.onboarding_state = DEMO_SENT) =>
    \A m \in DeclineTexts : \A r \in process_message(lead, m) :
      /\ r.row = lead
      /\ r.out = <<"text:soft_exit">>

\* C12, what the engine does keep: the same for the decline keywords in which
\* no start keyword occurs
DeclineWithoutKeywordInsideKeepsDemoSent ==
  (lead.exists /\ lead.onboarding_state = DEMO_SENT) =>
    \A m \in DeclineTexts :
      ~IsStartMessage[m] =>
        \A r \in process_message(lead, m) :
          /\ r.row = lead
          /\ r.out = <<"text:soft_exit">>

\* the texts _handle_post_demo takes as the identifier of a plan
PlanTexts(plan) ==
  { m \in Texts : MessageLower[m] \in (IF plan = "generalista" THEN plan_generalista_words
                                                              ELSE plan_estrategista_words) }

\* the messages _send_payment_link sends when no link was created
PaymentFallbacks == { "text:payment_problem", "text:contact_us", "text:checkout_failed" }

\* C13: in DEMO_SENT a plan identifier either gets the payment link, and then
\* the state is AWAITING_PAYMENT and plan is the chosen plan with every other
\* field as it was, or gets one of the fallback messages, and then the row is
\* as it was; both outcomes are possible
PlanChoiceIssuesLinkOrFallsBack ==
  (lead.exists /\ lead.onboarding_state = DEMO_SENT) =>
    \A plan \in Plans : \A m \in PlanTexts(plan) :
      /\ \A r \in process_message(lead, m) :
           /\ Len(r.out) = 1
           /\ \/ /\ r.out[1] = "text:payment_link"
                 /\ r.row = [lead EXCEPT !.onboarding_state = AWAITING_PAYMENT, !.plan = plan]
              \/ /\ r.out[1] \in PaymentFallbacks
                 /\ r.row = lead
      /\ \E r \in process_message(lead, m) : r.out[1] = "text:payment_link"
      /\ \A f \in PaymentFallbacks : \E r \in process_message(lead, m) : r.out[1] = f

\* C13's case: a plan was chosen in DEMO_SENT and no link could be created
PlanChosenLinkFailed ==
  /\ lead.exists
  /\ lead.onboarding_state = DEMO_SENT
  /\ Len(out) = 1
  /\ out[1] \in PaymentFallbacks

\* the texts _handle_awaiting_payment takes as "I have paid"
PaidTexts == { m \in Texts : MessageLower[m] \in paid_words }

\* C14: in AWAITING_PAYMENT a paid keyword writes ACTIVE, and nothing else,
\* exactly when the loaded row has is_active true; otherwise nothing is written
\* and the still-waiting message is sent
PaidKeywordAdvancesIffIsActive ==
  (lead.exists /\ lead.onboarding_state = AWAITING_PAYMENT) =>
    \A m \in PaidTexts : \A r \in process_message(lead, m) :
      /\ Len(r.out) = 1
      /\ IF lead.is_active
         THEN /\ r.row = [lead EXCEPT !.onboarding_state = ACTIVE]
              /\ r.out[1] = "text:payment_confirmed"
         ELSE /\ r.row = lead
              /\ r.out[1] = "text:still_waiting"

\* C14's case: a paid keyword has just advanced a contact to ACTIVE
PaidKeywordAdvanced ==
  /\ lead.exists
  /\ lead.onboarding_state = ACTIVE
  /\ lead.is_active
  /\ Len(out) = 1
  /\ out[1] = "text:payment_confirmed"

\* the texts _handle_tone_selection takes as a tone, and the tone each names
ToneTexts == { m \in Texts : MessageLower[m] \in tone_formal_words \cup tone_casual_words }

ToneOf(m) == IF MessageLower[m] \in tone_formal_words THEN "formal" ELSE "casual"

\* the handler ran to its end: nothing it called raised
Completed(r) == r.out[Len(r.out)] # "raise"

DeepDiveTexts == { m \in Texts : MessageLower[m] \in deep_dive_words }

\* C16 as stated: whatever the articles query does, raising included, a tone
\* word in SELECTING_TONE ends in DEMO_SENT with the tone persisted and a
\* message sent last, and "explain more" in DEMO_SENT leaves the row as it was
\* and ends with the plan choice offered again
GenerationFailureStillContinues ==
  /\ (lead.exists /\ lead.onboarding_state = SELECTING_TONE) =>
       \A m \in ToneTexts : \A r \in process_message(lead, m) :
         /\ Completed(r)
         /\ r.row.onboarding_state = DEMO_SENT
         /\ "tone" \in DOMAIN r.row.onboarding_data
         /\ r.row.onboarding_data["tone"] = ToneOf(m)
  /\ (lead.exists /\ lead.onboarding_state = DEMO_SENT) =>
       \A m \in DeepDiveTexts : \A r \in process_message(lead, m) :
         /\ Completed(r)
         /\ r.row = lead
         /\ r.out[Len(r.out)] = "buttons:plan"

\* C16, what the engine does keep: when the articles query returns, with rows
\* or with none, "explain more" in DEMO_SENT writes nothing and ends with the
\* plan choice; when it raises, nothing is written in either state
GenerationWithoutErrorContinues ==
  /\ (lead.exists /\ lead.onboarding_state = DEMO_SENT) =>
       \A m \in DeepDiveTexts : \A r \in process_message(lead, m) :
         /\ r.row = lead
         /\ Completed(r) => r.out[Len(r.out)] = "buttons:plan"
  /\ (lead.exists /\ lead.onboarding_state = SELECTING_TONE) =>
       \A m \in ToneTexts : \A r \in process_message(lead, m) :
         ~Completed(r) => r.row = lead

\* the fields C17 names
SubscriptionOf(row) == <<row.onboarding_state, row.is_active, row.plan>>

\* C17 as stated: in ACTIVE every text that is not a configuration keyword is
\* handed to the chat assistant and leaves the state, is_active and plan as
\* they were
ActiveTextIsDelegated ==
  (lead.exists /\ lead.onboarding_state = ACTIVE) =>
    \A m \in { t \in Texts : MessageNormalized[t] \notin config_keywords } :
      \A r \in process_message(lead, m) :
        /\ SubscriptionOf(r.row) = SubscriptionOf(lead)
        /\ r.out[1] = "chat_assistant"

\* C17, what the engine does keep: the same for the texts that are no reset
\* command and in which no configuration keyword occurs; these change no field
\* of the row at all
ActiveTextButResetIsDelegated ==
  (lead.exists /\ lead.onboarding_state = ACTIVE) =>
    \A m \in { t \in Texts : ~IsConfigCommand[t] /\ ~is_reset_command(t) } :
      \A r \in process_message(lead, m) :
        /\ r.row = lead
        /\ r.out[1] = "chat_assistant"

\* the texts whose normalization is a configuration keyword
ConfigKeywordTexts == { m \in Texts : MessageNormalized[m] \in config_keywords }

\* C18 as stated: a configuration keyword received in a funnel state never
\* leaves the contact in CONFIGURING
ConfigKeywordInFunnelNeverConfigures ==
  (lead.exists /\ lead.onboarding_state \in FunnelStates) =>
    \A m \in ConfigKeywordTexts : \A r \in process_message(lead, m) :
      r.row.onboarding_state # CONFIGURING

\* C18, what the engine does keep: the configuration menu is opened by the
\* keyword exactly for the rows with is_active true, whatever their state
ConfigKeywordConfiguresIffIsActive ==
  lead.exists =>
    \A m \in ConfigKeywordTexts : \A r \in process_message(lead, m) :
      (r.row.onboarding_state = CONFIGURING /\ r.out[1] = "text:config_summary") <=> lead.is_active

\* the working set of the topic editor
Editing(row) == Get(row.onboarding_data, "editing_interests", <<>>)

\* the topics of a list
TopicsOf(list) == { list[i] : i \in DOMAIN list }

\* C19: in CONFIG_INTERESTS a known topic token leaves the working set without
\* the topic if it held it, with the topic added if it did not and held fewer
\* than 3, and as it was, with the rejection sent, if it did not and held 3
\* already; the state, the committed interests and every field but the working
\* set stay as they were
TopicTokenTogglesWorkingSet ==
  (lead.exists /\ lead.onboarding_state = CONFIG_INTERESTS) =>
    \A m \in TopicTexts : \A r \in process_message(lead, m) :
      /\ r.row.onboarding_state = CONFIG_INTERESTS
      /\ r.row.interests = lead.interests
      /\ [r.row EXCEPT !.onboarding_data = lead.onboarding_data] = lead
      /\ \A k \in DOMAIN lead.onboarding_data \ {"editing_interests"} :
           /\ k \in DOMAIN r.row.onboarding_data
           /\ r.row.onboarding_data[k] = lead.onboarding_data[k]
      /\ IF Topic(m) \in TopicsOf(Editing(lead))
         THEN /\ TopicsOf(Editing(r.row)) = TopicsOf(Editing(lead)) \ {Topic(m)}
              /\ Len(Editing(r.row)) = Len(Editing(lead)) - 1
              /\ r.out[1] = "text:interest_removed"
         ELSE IF Len(Editing(lead)) < 3
         THEN /\ TopicsOf(Editing(r.row)) = TopicsOf(Editing(lead)) \cup {Topic(m)}
              /\ Len(Editing(r.row)) = Len(Editing(lead)) + 1
              /\ r.out[1] = "text:interest_added"
         ELSE /\ Editing(r.row) = Editing(lead)
              /\ r.out[1] = "text:already_three"

\* C19's case: a fourth topic has just been rejected and the working set,
\* which differs from the committed interests, still holds its three topics
FourthTopicRejected ==
  /\ lead.exists
  /\ lead.onboarding_state = CONFIG_INTERESTS
  /\ Len(Editing(lead)) = 3
  /\ Editing(lead) # lead.interests
  /\ Len(out) > 0
  /\ out[1] = "text:already_three"

\* the row SpecConfig starts from is a row Spec reaches
SubscriberReached == lead = subscriber

\* the texts _handle_config_interests takes as "save"
SaveTexts == { m \in Texts : MessageLower[m] \in save_words }

\* C20: in CONFIG_INTERESTS no text changes the committed interests except a
\* save keyword with a non-empty working set, after which interests is the
\* working set and the state is CONFIGURING; a save keyword with an empty
\* working set is rejected and writes nothing
InterestsCommittedOnlyOnSave ==
  (lead.exists /\ lead.onboarding_state = CONFIG_INTERESTS) =>
    \A m \in Texts : \A r \in process_message(lead, m) :
      /\ (m \notin SaveTexts \/ Editing(lead) = <<>>) => r.row.interests = lead.interests
      /\ (m \in SaveTexts /\ Editing(lead) # <<>>) =>
           /\ r.row.interests = Editing(lead)
           /\ r.row.onboarding_state = CONFIGURING
           /\ r.out[1] = "text:interests_saved"
      /\ (m \in SaveTexts /\ Editing(lead) = <<>>) =>
           /\ r.row = lead
           /\ r.out[1] = "text:select_at_least_one"

\* C20's case: a save keyword has just committed a working set
WorkingSetSaved ==
  /\ lead.exists
  /\ lead.onboarding_state = CONFIGURING
  /\ lead.interests # <<>>
  /\ lead.interests = Editing(lead)
  /\ Len(out) > 0
  /\ out[1] = "text:interests_saved"

\* C20's other case: a save keyword was just rejected for an empty working set
\* while interests were committed
EmptySaveRejected ==
  /\ lead.exists
  /\ lead.onboarding_state = CONFIG_INTERESTS
  /\ lead.interests # <<>>
  /\ Editing(lead) = <<>>
  /\ Len(out) > 0
  /\ out[1] = "text:select_at_least_one"

\* the texts that are one of AVAILABLE_TIMES, typed as HH:MM or as HHMM
TimeTexts ==
  { m \in Texts : \E i \in DOMAIN AVAILABLE_TIMES :
                    \/ MessageLower[m] = AVAILABLE_TIMES[i]
                    \/ MessageLower[m] = RemoveColons(AVAILABLE_TIMES[i]) }

\* the time of AVAILABLE_TIMES such a text names
TimeOf(m) ==
  AVAILABLE_TIMES[CHOOSE i \in DOMAIN AVAILABLE_TIMES :
                    RemoveColons(AVAILABLE_TIMES[i]) = RemoveColons(MessageLower[m])]

\* the step of the schedule editor
ConfigStep(row) == Get(row.onboarding_data, "config_step", "time_1")

\* C21: in CONFIG_SCHEDULE, (a) the first valid time of a two-slot plan is
\* written to the working data only, with the state and preferred_times as
\* they were; (b) the second valid time writes preferred_times = [first,
\* second] and the state CONFIGURING; (c) the first valid time of a single-slot
\* plan is written to preferred_times at once with the state CONFIGURING;
\* (d) cancelling writes the state CONFIGURING and leaves preferred_times
ScheduleSavedWhenLastSlotArrives ==
  (lead.exists /\ lead.onboarding_state = CONFIG_SCHEDULE) =>
    /\ ConfigStep(lead) \in {"time_1", "time_2"}
    /\ ConfigStep(lead) = "time_2" =>
         /\ lead.plan = "estrategista"
         /\ "new_time_1" \in DOMAIN lead.onboarding_data
    /\ \A m \in TimeTexts : \A r \in process_message(lead, m) :
         IF ConfigStep(lead) = "time_1" /\ lead.plan = "estrategista"
         THEN /\ r.row.onboarding_state = CONFIG_SCHEDULE
              /\ r.row.preferred_times = lead.preferred_times
              /\ r.row.onboarding_data["new_time_1"] = TimeOf(m)
              /\ ConfigStep(r.row) = "time_2"
         ELSE IF ConfigStep(lead) = "time_2"
         THEN /\ r.row.onboarding_state = CONFIGURING
              /\ r.row.preferred_times = <<lead.onboarding_data["new_time_1"], TimeOf(m)>>
         ELSE /\ r.row.onboarding_state = CONFIGURING
              /\ r.row.preferred_times[1] = TimeOf(m)
    /\ \A m \in { t \in Texts : MessageLower[t] \in back_words } :
         \A r \in process_message(lead, m) :
           /\ r.row.onboarding_state = CONFIGURING
           /\ r.row.preferred_times = lead.preferred_times

\* C21's case: the second time of a two-slot plan has just been saved after a
\* different first time
TwoSlotScheduleSaved ==
  /\ lead.exists
  /\ lead.onboarding_state = CONFIGURING
  /\ lead.plan = "estrategista"
  /\ ConfigStep(lead) = "time_2"
  /\ Len(out) > 0
  /\ out[1] = "text:schedule_saved"
  /\ lead.preferred_times = <<AVAILABLE_TIMES[1], DEFAULT_TIME_2>>
  /\ lead.onboarding_data["new_time_1"] = AVAILABLE_TIMES[1]

\* the deliveries per day of a plan
SlotsOf(plan) == IF plan = "estrategista" THEN 2 ELSE 1

\* the schedule flow has just completed: the last event saved a schedule
ScheduleJustSaved ==
  /\ lead.exists
  /\ Len(out) > 0
  /\ out[1] = "text:schedule_saved"

\* C22 as stated: once the schedule flow has completed preferred_times holds
\* as many times as the plan delivers per day, one for generalista and two for
\* estrategista
PreferredTimesMatchPlan ==
  ScheduleJustSaved => Len(lead.preferred_times) = SlotsOf(lead.plan)

\* C22, what the engine does keep: preferred_times always holds two times, the
\* second of a generalista schedule being the fixed 19:00
PreferredTimesAlwaysTwo ==
  /\ lead.exists => Len(lead.preferred_times) = 2
  /\ (ScheduleJustSaved /\ lead.plan = "generalista") =>
       lead.preferred_times[2] = DEFAULT_TIME_2

\* C23: whatever the WhatsApp API does with the sends of an event (200,
\* another status, a timeout), _send_message raises nothing, returns false
\* unless the answer was 200, and the event leaves the same rows, with the
\* same state and data written, as when every send succeeds
SendFailureWritesTheSame ==
  \A t \in Transports :
    /\ ~send_message(t).raised
    /\ send_message(t).returned <=> t = "ok"
    /\ \A m \in Messages : process_message_over(lead, m, t) = process_message(lead, m)

\* C23's case: the sends of the welcome timed out and the contact is in
\* SELECTING_INTERESTS with its working selection emptied all the same
WelcomeTimedOutStateWritten ==
  /\ transport = "timeout"
  /\ lead.exists
  /\ lead.onboarding_state = SELECTING_INTERESTS
  /\ Selected(lead) = <<>>
  /\ Len(out) > 0
  /\ out[1] = "text:welcome"

\* the request body in flight makes receive_webhook raise inside its try block
BodyRaises == walk_body(body, <<>>, 0).raised

\* C24: whatever the request body, receive_webhook answers HTTP 200 with a
\* status of its own, "ok" or "error", and lets no exception through
EveryBodyIsAnswered ==
  response # NoResponse =>
    /\ response.status_code = 200
    /\ response.status \in {"ok", "error"}

\* C24's case: the second message of a body made the extraction raise after
\* the first was queued, and the request was answered all the same
MalformedMessageAnswered ==
  /\ body.kind = "messages"
  /\ Len(body.messages) = 2
  /\ body.messages[2].fault = "payload_not_object"
  /\ BodyRaises
  /\ tasks[1] # <<>>
  /\ response.status_code = 200
  /\ response.status = "error"

\* the last event ended by an error that left process_message
EndedInError == out # <<>> /\ out[Len(out)] = "raise"

\* C25 as stated: no event ends with an error leaving process_message
NoUnhandledError == ~EndedInError

\* C25, what the engine does keep: of the collaborators whose failures are
\* followed here (the articles query and the payment-link issuer), only the
\* articles query lets an error through, so an event that ended in an error
\* was a tone word in SELECTING_TONE or "explain more" in DEMO_SENT; the
\* failures of the payment-link issuer all end in a fallback message
OnlyContentFetchErrorsEscape ==
  /\ EndedInError => (lead.exists /\ lead.onboarding_state \in {SELECTING_TONE, DEMO_SENT})
  /\ (lead.exists /\ lead.onboarding_state = DEMO_SENT) =>
       \A plan \in Plans : \A m \in PlanTexts(plan) : \A r \in process_message(lead, m) :
         Completed(r)

\* what an event led to: the row left and the prompts sent, the text handed to
\* the chat assistant left aside
Outcomes(row, m) ==
  { [row |-> r.row,
     out |-> IF r.out # <<>> /\ r.out[1] = "chat_assistant"
             THEN <<"chat_assistant", "text:assistant_reply">> ELSE r.out]
    : r \in process_message(row, m) }

\* C26 as stated: in every state a text is treated as its normalized spelling
\* is (case folded, accents stripped, outer blanks trimmed), so that two texts
\* with the same normalized form are treated alike
SameNormalFormSameOutcome ==
  \A m \in Texts : Outcomes(lead, m) = Outcomes(lead, MessageNormalized[m])

\* C26, what the engine does keep: a text is treated as its lower-case,
\* trimmed spelling is, accents kept
SameLowerFormSameOutcome ==
  \A m \in Texts : MessageLower[m] \in Texts =>
                     Outcomes(lead, m) = Outcomes(lead, MessageLower[m])

\* the prompts the last event sent
PromptsSent ==
  IF out # <<>> /\ out[1] = "chat_assistant" THEN {}
  ELSE { out[i] : i \in DOMAIN out } \cap DOMAIN Offered

\* tapping that choice in the row the contact is in is answered by the else
\* branch of the state's handler
HandledAsUnrecognized(choice) ==
  \E r \in process_message(lead, choice) : r.out[1] \in UnrecognizedReplies

\* C27 as stated: once an event is over, no choice of a prompt it sent is
\* handled as unrecognized input in the state the contact is then in
OfferedChoicesAreRecognized ==
  \A p \in PromptsSent : \A choice \in Offered[p] : ~HandledAsUnrecognized(choice)

\* C27, what the engine does keep: the same for every prompt but the plan
\* buttons sent to a contact in AWAITING_PAYMENT
OfferedChoicesButPlanInAwaitingPayment ==
  \A p \in PromptsSent :
    ~(p = "buttons:plan" /\ lead.onboarding_state = AWAITING_PAYMENT) =>
      \A choice \in Offered[p] : ~HandledAsUnrecognized(choice)

\* C28 as stated: handling a message is no payment confirmation, so it never
\* takes the plan of a contact away from the default tier
PlanLeavesDefaultOnlyOnConfirmation ==
  lead.plan = "generalista" =>
    \A m \in Texts : \A r \in process_message(lead, m) : r.row.plan = "generalista"

\* C28, what the engine does keep: a message changes the plan only when it is
\* a reset command, which restores the default tier, or a plan choice in
\* DEMO_SENT for which a payment link was created
PlanChangesOnlyWithPaymentLink ==
  \A m \in Texts : \A r \in process_message(lead, m) :
    r.row.plan # lead.plan =>
      \/ is_reset_command(m) /\ r.row.plan = "generalista"
      \/ /\ lead.onboarding_state = DEMO_SENT
         /\ r.row.onboarding_state = AWAITING_PAYMENT
         /\ r.out = <<"text:payment_link">>
         /\ MessageLower[m] \in plan_generalista_words \cup plan_estrategista_words

\* C29: handling a message, in any state and for any text, leaves a contact
\* that is not active not active; the row the engine inserts is not active,
\* and the update of the payment confirmation is the one that writes
\* is_active true
MessagesNeverActivate ==
  /\ ~new_lead.is_active
  /\ \A plan \in Plans : confirm_payment_update(plan).is_active
  /\ ~lead.is_active =>
       \A m \in Texts : \A r \in process_message(lead, m) : ~r.row.is_active

\* C29's case: a contact that is not active has just said it paid and is
\* still not active
InactiveContactSaidItPaid ==
  /\ lead.exists
  /\ ~lead.is_active
  /\ lead.onboarding_state = AWAITING_PAYMENT
  /\ out = <<"text:still_waiting">>

\* C30: whatever row the payment confirmation finds, the one update it issues
\* leaves it with state ACTIVE, is_active true and the confirmed plan, and
\* the rest of the row as it was; the record the last confirmation left is
\* such a record
ConfirmationWritesActiveRecord ==
  /\ lead.exists =>
       \A plan \in Plans :
         LET row == ApplyUpdate(lead, confirm_payment_update(plan))
         IN  /\ row.onboarding_state = ACTIVE
             /\ row.is_active
             /\ row.plan = plan
             /\ row.interests = lead.interests
             /\ row.onboarding_data = lead.onboarding_data
             /\ row.preferred_times = lead.preferred_times
  /\ (out # <<>> /\ out[1] = "text:payment_received" /\ lead.exists) =>
       lead.onboarding_state = ACTIVE /\ lead.is_active

\* C30's case: a payment was confirmed for a contact that had not chosen a
\* tone yet, and a record was written
ConfirmedBeforeTheFunnelEnded ==
  /\ out # <<>>
  /\ out[1] = "text:payment_received"
  /\ lead.exists
  /\ lead.plan = "estrategista"
  /\ "tone" \notin DOMAIN lead.onboarding_data

\* the texts _handle_profile_selection takes as a profile, and the profile
\* each names
ProfileTexts ==
  { m \in Texts : MessageLower[m] \in profile_curioso_words \cup profile_profissional_words
                                       \cup profile_investidor_words }

ProfileOf(m) ==
  IF MessageLower[m] \in profile_curioso_words THEN "curioso"
  ELSE IF MessageLower[m] \in profile_profissional_words THEN "profissional"
  ELSE "investidor"

\* C31: in SELECTING_PROFILE every word of the profile vocabulary leaves the
\* row in SELECTING_TONE with the profile it names under
\* onboarding_data.profile, the working selection and every other key of
\* onboarding_data and every other field as they were, and is answered by the
\* tone buttons
ProfileWordPersistsProfile ==
  (lead.exists /\ lead.onboarding_state = SELECTING_PROFILE) =>
    \A m \in ProfileTexts : \A r \in process_message(lead, m) :
      /\ r.out = <<"text:profile_ok", "buttons:tone">>
      /\ r.row.onboarding_state = SELECTING_TONE
      /\ DOMAIN r.row.onboarding_data = DOMAIN lead.onboarding_data \cup {"profile"}
      /\ r.row.onboarding_data["profile"] = ProfileOf(m)
      /\ \A k \in DOMAIN lead.onboarding_data \ {"profile"} :
           r.row.onboarding_data[k] = lead.onboarding_data[k]
      /\ [r.row EXCEPT !.onboarding_state = lead.onboarding_state,
                       !.onboarding_data = lead.onboarding_data] = lead

\* C31's case: a profile word has just moved a contact to SELECTING_TONE, and
\* the working selection made before it is still in onboarding_data
ProfileChosenSelectionKept ==
  /\ lead.exists
  /\ lead.onboarding_state = SELECTING_TONE
  /\ out = <<"text:profile_ok", "buttons:tone">>
  /\ {"profile", "selected_interests"} \subseteq DOMAIN lead.onboarding_data
  /\ lead.onboarding_data["profile"] = "curioso"
  /\ lead.onboarding_data["selected_interests"] # <<>>

\* what a text leaves of a contact in NEW_LEAD, or of no contact yet: a row in
\* SELECTING_INTERESTS with an empty working selection and nothing else in
\* onboarding_data, the other fields those of the row loaded or inserted
StartsSelection(m) ==
  \A r \in process_message(lead, m) :
    /\ r.out = <<"text:welcome", "list:interests">>
    /\ r.row = [get_or_create_lead(lead) EXCEPT
                  !.exists = TRUE,
                  !.onboarding_state = SELECTING_INTERESTS,
                  !.onboarding_data = [selected_interests |-> <<>>]]
    /\ ~lead.exists => /\ ~r.row.is_active
                       /\ r.row.interests = <<>>
                       /\ r.row.plan = "generalista"

CarriesSelection(update_data) ==
  /\ "onboarding_data" \in DOMAIN update_data
  /\ "selected_interests" \in DOMAIN update_data["onboarding_data"]

\* both events are in flight and each is about to write a working selection
\* of one topic, the two topics different: each read the empty selection
\* before the other wrote
TwoTopicsFromEmptySelection ==
  /\ \A e \in Events :
       /\ pending[e] # <<>>
       /\ CarriesSelection(Head(pending[e]))
       /\ Len(Selected(Head(pending[e]))) = 1
  /\ \A e, o \in Events : e # o => Selected(Head(pending[e])) # Selected(Head(pending[o]))
  /\ lead.exists
  /\ Selected(lead) = <<>>

\* C33: of two events in flight that both write onboarding_data, the write
\* issued last leaves the column exactly as its event computed it from the
\* row it loaded, whatever the other wrote before; two topics selected from
\* the empty working selection leave only the topic of the last writer
LaterWriteOverwritesEarlier ==
  \A e, o \in Events :
    (e # o /\ pending[e] # <<>> /\ pending[o] # <<>>
     /\ "onboarding_data" \in DOMAIN Head(pending[e])
     /\ "onboarding_data" \in DOMAIN Head(pending[o])
     /\ lead.exists) =>
      LET earlier == Head(pending[e])
          later == Head(pending[o])
          row == ApplyUpdate(ApplyUpdate(lead, earlier), later)
      IN  /\ row.onboarding_data = later["onboarding_data"]
          /\ row.onboarding_state = later["onboarding_state"]
          /\ TwoTopicsFromEmptySelection =>
               /\ Selected(row) = Selected(later)
               /\ Len(Selected(row)) = 1
               /\ Selected(row) # Selected(earlier)

\* C34 as stated: also with events in flight at the same time, a contact in
\* ACTIVE has is_active true
ActiveImpliesIsActiveInFlight ==
  (lead.exists /\ lead.onboarding_state = ACTIVE) => lead.is_active

\* C35: whatever the interleaving, the phone number has at most one row: the
\* one the engine reads and no other
AtMostOneRecord == duplicates = 0

\* C35's case: two first messages of a new contact both looked the number up
\* before either inserted, one insert has been made and the other is still to
\* come
SecondInsertAfterFirst ==
  /\ lead.exists
  /\ \E e \in Events : pending[e] = <<Inserting>>

\* the states of the configuration sub-flow
ConfigurationStates == { CONFIGURING, CONFIG_SCHEDULE, CONFIG_INTERESTS }

\* C36: with events processed one at a time, a contact in CONFIGURING,
\* CONFIG_SCHEDULE or CONFIG_INTERESTS has is_active true; a text brings a
\* contact into the sub-flow only if the row loaded has is_active true, and
\* a text that clears is_active inside the sub-flow also leaves it
ConfigurationImpliesIsActive ==
  /\ lead.onboarding_state \in ConfigurationStates => lead.is_active
  /\ \A m \in Messages : \A r \in process_message(lead, m) :
       /\ ( /\ r.row.onboarding_state \in ConfigurationStates
            /\ lead.onboarding_state \notin ConfigurationStates ) => lead.is_active
       /\ ( /\ lead.onboarding_state \in ConfigurationStates
            /\ ~r.row.is_active ) => r.row.onboarding_state \notin ConfigurationStates

\* C36's case: a subscriber is choosing its second delivery time
SubscriberInScheduleSubFlow ==
  /\ lead.exists
  /\ lead.is_active
  /\ lead.onboarding_state = CONFIG_SCHEDULE
  /\ Get(lead.onboarding_data, "config_step", "none") = "time_2"

\* a list of at most 3 topics, none twice
AtMostThreeDistinct(list) ==
  /\ Len(list) <= 3
  /\ \A i, j \in DOMAIN list : i # j => list[i] # list[j]

\* C37: whatever the interleaving of the events of a contact, the committed
\* interests, the working selection of the onboarding and the working set of
\* the topic editor each hold at most 3 topics and none twice
TopicListsAtMostThreeDistinct ==
  /\ AtMostThreeDistinct(lead.interests)
  /\ AtMostThreeDistinct(Selected(lead))
  /\ AtMostThreeDistinct(Editing(lead))

\* C37's case: with a fourth topic on offer, an event computed its working
\* selection from a row the other event has since replaced, and the stored
\* selection is full
StaleSelectionAgainstFullSelection ==
  /\ Len(Selected(lead)) = 3
  /\ \E e \in Events :
       /\ pending[e] # <<>>
       /\ CarriesSelection(Head(pending[e]))
       /\ Len(Selected(Head(pending[e]))) = 2

\* C37's other case: the same in the topic editor
StaleWorkingSetAgainstFullWorkingSet ==
  /\ Len(Editing(lead)) = 3
  /\ Len(lead.interests) = 3
  /\ \E e \in Events :
       /\ pending[e] # <<>>
       /\ "onboarding_data" \in DOMAIN Head(pending[e])
       /\ Len(Editing(Head(pending[e]))) = 2

\* ---------------------------------------------------------------------------
\* C38: every message admitted by the dedup gate with a supported type and a
\* content that is not empty is processed by process_message, also when the
\* processing of another message of the same webhook request raised: once the
\* tasks of a request are over, none of the texts it queued was left out
RequestOver == response # NoResponse /\ tasks[1] = <<>>

EveryQueuedTextProcessed == RequestOver => skipped = <<>>

\* texts are left out only behind a task that raised
SkippedOnlyBehindRaisingTask == skipped # <<>> => task_raised(out)

\* a text was left out and the id of every message of its request is recorded
\* as seen
SkippedTextRecordedAsSeen ==
  /\ skipped # <<>>
  /\ \A i \in DOMAIN body.messages :
       needs_dedup(body.messages[i].id) /\ body.messages[i].id \in DOMAIN processed_messages

\* ---------------------------------------------------------------------------
\* C39: a reset command ("reset", "reiniciar", "debug_reset"), in whatever
\* state the contact is, writes state NEW_LEAD, is_active false, the default
\* tier and an empty onboarding_data; the committed interests and the
\* preferred_times stay as they were, and a phone number without a record
\* still has none afterwards
ResetCommandRestoresNewLead ==
  \A m \in { t \in Texts : is_reset_command(t) } :
    \A r \in process_message(lead, m) :
      /\ r.row.exists = lead.exists
      /\ r.row.interests = lead.interests
      /\ r.row.preferred_times = lead.preferred_times
      /\ lead.exists =>
           /\ r.row.onboarding_state = NEW_LEAD
           /\ ~r.row.is_active
           /\ r.row.plan = "generalista"
           /\ r.row.onboarding_data = <<>>
      /\ r.out = <<"text:state_reset">>

\* a subscriber with committed interests and a schedule of its own was reset
SubscriberWasReset ==
  /\ out = <<"text:state_reset">>
  /\ lead.onboarding_state = NEW_LEAD
  /\ lead.interests # <<>>
  /\ lead.preferred_times # new_lead.preferred_times

\* ---------------------------------------------------------------------------
\* C40: every time value written to preferred_times by CONFIG_SCHEDULE is one
\* of the allowed hours in HH:MM form, a member of AVAILABLE_TIMES
PreferredTimesAreAvailableTimes ==
  \A i \in DOMAIN lead.preferred_times : InSeq(lead.preferred_times[i], AVAILABLE_TIMES)

\* what the schedule editor does keep: the digits of every time written are
\* those of an allowed hour
PreferredTimesHaveAvailableDigits ==
  \A i \in DOMAIN lead.preferred_times :
    \E j \in DOMAIN AVAILABLE_TIMES :
      RemoveColons(lead.preferred_times[i]) = RemoveColons(AVAILABLE_TIMES[j])

\* and a text whose digits are not those of an allowed hour, the way back
\* aside, changes neither state nor data
OtherTextsChangeNothing ==
  lead.onboarding_state = CONFIG_SCHEDULE =>
    \A m \in { t \in Texts :
                 /\ MessageLower[t] \notin back_words
                 /\ \A j \in DOMAIN AVAILABLE_TIMES :
                      RemoveColons(MessageLower[t]) # RemoveColons(AVAILABLE_TIMES[j]) } :
      \A r \in handle_config_schedule(lead, m) : r.updates = <<>>
====
